---- MODULE Spec2Model ----
(***************************************************************************)
(* Chunk face culling and incremental mesh maintenance of the voxel world: *)
(* World (src/src/world.rs) over Chunk / ChunkMesh (src/src/chunk.rs) and  *)
(* the block catalogue (src/src/block.rs).                                 *)
(*                                                                         *)
(* Positions are <<x, y, z>>, chunk grid coordinates <<x, z>>.  Vertex     *)
(* coordinates are kept doubled (the cube corners are +-0.5) and texture   *)
(* coordinates as numerators over ATLAS_SIZE, so that every vertex is a    *)
(* tuple of integers <<2x, 2y, 2z, u, v>>.  A buffer is the function from  *)
(* its non-zero element slots to their contents; every other slot is zero. *)
(***************************************************************************)
EXTENDS Integers, Sequences, FiniteSets, TLC

\* ------------------------------------------------------------------------
\* Program constants
\* ------------------------------------------------------------------------
CHUNK_WIDTH == 16
CHUNK_HEIGHT == 256
CHUNK_DEPTH == 16
CHUNK_SIZE == CHUNK_WIDTH * CHUNK_HEIGHT * CHUNK_DEPTH
ATLAS_SIZE == 256
TEXTURE_SIZE == 16
\* size_of::<ChunkVertex>() (Vector3<f32> + Vector2<f32>, repr(C)) and
\* size_of::<u32>(), in bytes
SizeOfChunkVertex == 20
SizeOfU32 == 4
\* bounds of i32
I32Max == 2147483647
I32Min == -I32Max - 1

\* ------------------------------------------------------------------------
\* Bounds of the model
\* ------------------------------------------------------------------------
\* number of calls (new_chunk and set_block together) made on the World
MaxCalls == 5

\* the block variants placed (block.rs declares Air, Grass, Dirt, Stone)
Blocks == {"Air", "Stone"}
\* world-grid coordinates handed to new_chunk
ChunkLocations == {<<0, 0>>, <<1, 0>>}
\* dynamic uniform offsets handed to new_chunk
UniformOffsets == {0}
\* the local positions inside a chunk handed to set_block: an interior
\* cell, the cells on the maximum-x and minimum-x edges next to it, a
\* top-layer and a bottom-layer cell
Positions ==
    { <<14, 0, 5>>, <<15, 0, 5>>, <<0, 0, 5>>, <<14, 127, 5>>, <<14, -128, 5>> }
\* a position outside the chunk's dimensions handed to set_block
OutsidePositions == { <<16, 0, 5>> }

\* ------------------------------------------------------------------------
\* Direction (chunk.rs)
\* ------------------------------------------------------------------------
Directions == {"FRONT", "BACK", "TOP", "BOTTOM", "LEFT", "RIGHT"}

\* mutant: the loop of set_block leaves the FRONT face out
faces_without_front == <<"BACK", "TOP", "BOTTOM", "LEFT", "RIGHT">>

\* the order in which set_block visits the faces
faces == <<"FRONT", "BACK", "TOP", "BOTTOM", "LEFT", "RIGHT">>

cube_verts(face) ==
    CASE face = "FRONT"  -> << <<-1, -1, 1>>, <<1, -1, 1>>, <<1, 1, 1>>, <<-1, 1, 1>> >>
      [] face = "BACK"   -> << <<1, -1, -1>>, <<-1, -1, -1>>, <<-1, 1, -1>>, <<1, 1, -1>> >>
      [] face = "TOP"    -> << <<-1, 1, 1>>, <<1, 1, 1>>, <<1, 1, -1>>, <<-1, 1, -1>> >>
      [] face = "BOTTOM" -> << <<-1, -1, -1>>, <<1, -1, -1>>, <<1, -1, 1>>, <<-1, -1, 1>> >>
      [] face = "LEFT"   -> << <<-1, -1, -1>>, <<-1, -1, 1>>, <<-1, 1, 1>>, <<-1, 1, -1>> >>
      [] face = "RIGHT"  -> << <<1, -1, 1>>, <<1, -1, -1>>, <<1, 1, -1>>, <<1, 1, 1>> >>

cube_indices(face) ==
    CASE face = "FRONT"  -> <<0, 1, 2, 2, 3, 0>>
      [] face = "BACK"   -> <<4, 5, 6, 6, 7, 4>>
      [] face = "TOP"    -> <<8, 9, 10, 10, 11, 8>>
      [] face = "BOTTOM" -> <<12, 13, 14, 14, 15, 12>>
      [] face = "LEFT"   -> <<16, 17, 18, 18, 19, 16>>
      [] face = "RIGHT"  -> <<20, 21, 22, 22, 23, 20>>

to_vec3(face) ==
    CASE face = "FRONT"  -> <<0, 0, 1>>
      [] face = "BACK"   -> <<0, 0, -1>>
      [] face = "TOP"    -> <<0, 1, 0>>
      [] face = "BOTTOM" -> <<0, -1, 0>>
      [] face = "LEFT"   -> <<-1, 0, 0>>
      [] face = "RIGHT"  -> <<1, 0, 0>>

index(face) ==
    CASE face = "FRONT"  -> 0
      [] face = "BACK"   -> 1
      [] face = "TOP"    -> 2
      [] face = "BOTTOM" -> 3
      [] face = "LEFT"   -> 4
      [] face = "RIGHT"  -> 5

get_opposite(face) ==
    CASE face = "FRONT"  -> "BACK"
      [] face = "BACK"   -> "FRONT"
      [] face = "TOP"    -> "BOTTOM"
      [] face = "BOTTOM" -> "TOP"
      [] face = "LEFT"   -> "RIGHT"
      [] face = "RIGHT"  -> "LEFT"

\* cgmath add_element_wise on Vector3<i32> / Vector2<i32>
add_element_wise3(a, b) == <<a[1] + b[1], a[2] + b[2], a[3] + b[3]>>
add_element_wise2(a, b) == <<a[1] + b[1], a[2] + b[2]>>

\* ------------------------------------------------------------------------
\* Block catalogue (block.rs)
\* ------------------------------------------------------------------------
\* BlockData::texture_coordinates: the atlas origin of each face
texture_coordinates(block) ==
    CASE block = "Air" ->
           [front |-> <<0, 0>>, back |-> <<0, 0>>, top |-> <<0, 0>>,
            bottom |-> <<0, 0>>, left |-> <<0, 0>>, right |-> <<0, 0>>]
      [] block = "Grass" ->
           [front |-> <<16, 0>>, back |-> <<16, 0>>, top |-> <<0, 0>>,
            bottom |-> <<32, 0>>, left |-> <<16, 0>>, right |-> <<16, 0>>]
      [] block = "Dirt" ->
           [front |-> <<32, 0>>, back |-> <<32, 0>>, top |-> <<32, 0>>,
            bottom |-> <<32, 0>>, left |-> <<32, 0>>, right |-> <<32, 0>>]
      [] block = "Stone" ->
           [front |-> <<48, 0>>, back |-> <<48, 0>>, top |-> <<48, 0>>,
            bottom |-> <<48, 0>>, left |-> <<48, 0>>, right |-> <<48, 0>>]

\* the closure `transform` of to_vec, as a numerator over ATLAS_SIZE
transform(origin, coord) ==
    <<origin[1] + coord[1] * TEXTURE_SIZE, origin[2] + coord[2] * TEXTURE_SIZE>>

\* the four corners of face number i (0-based), swapped for even i
FaceTexCoords(origin, i) ==
    LET result == << transform(origin, <<0, 1>>), transform(origin, <<1, 1>>),
                     transform(origin, <<1, 0>>), transform(origin, <<0, 0>>) >>
    IN  IF i % 2 = 0
        THEN <<result[2], result[1], result[4], result[3]>>
        ELSE result

\* TexCoordConfig::to_vec: 24 coordinates, 4 per face, in the order
\* front, back, top, bottom, left, right
to_vec(cfg) ==
    FaceTexCoords(cfg.front, 0) \o FaceTexCoords(cfg.back, 1) \o
    FaceTexCoords(cfg.top, 2) \o FaceTexCoords(cfg.bottom, 3) \o
    FaceTexCoords(cfg.left, 4) \o FaceTexCoords(cfg.right, 5)

\* ------------------------------------------------------------------------
\* Integer conversions
\* ------------------------------------------------------------------------
\* a + b on i32.  A sum outside i32 panics in a build with overflow checks
\* and wraps modulo 2^32 in a build without them.
AddI32(a, b, overflow_checks) ==
    IF b >= 0 /\ a > I32Max - b
    THEN IF overflow_checks
         THEN [panic |-> TRUE, val |-> 0]
         ELSE [panic |-> FALSE, val |-> ((a - I32Max) + (b - I32Max)) - 2]
    ELSE IF b < 0 /\ a < I32Min - b
    THEN IF overflow_checks
         THEN [panic |-> TRUE, val |-> 0]
         ELSE [panic |-> FALSE, val |-> ((a - I32Min) + (b - I32Min))]
    ELSE [panic |-> FALSE, val |-> a + b]

\* `i as usize` for an i32 i: sign extension, so a negative i becomes
\* 2^64 + i.  The value is kept as carry * 2^64 + low.
AsUsize(i) == IF i < 0 THEN [carry |-> 1, low |-> i] ELSE [carry |-> 0, low |-> i]

\* u < n for a usize u and a dimension n < 2^31
UsizeLess(u, n) == u.carry = 0 /\ u.low < n

\* ------------------------------------------------------------------------
\* Chunk (chunk.rs)
\* ------------------------------------------------------------------------
\* Chunk::new: every cell Air.  The grid is kept on Positions; the cells
\* outside Positions are never written and stay Air.
NewChunk(world_offset) ==
    [blocks |-> [p \in Positions |-> "Air"], world_offset |-> world_offset]

\* the cell of the dense array at an index inside its dimensions
BlocksAt(chunk, x, yb, z) ==
    LET p == <<x, yb - CHUNK_HEIGHT \div 2, z>>
    IN  IF p \in DOMAIN chunk.blocks THEN chunk.blocks[p] ELSE "Air"

\* Option<&Block>, and the panic a call may end in instead of returning
None == [panic |-> FALSE, some |-> FALSE]
Some(b) == [panic |-> FALSE, some |-> TRUE, val |-> b]
Panic == [panic |-> TRUE, some |-> FALSE]

\* Chunk::get_block: the y-bias, the casts to usize and ndarray's checked get
get_block(chunk, position, overflow_checks) ==
    LET y == AddI32(position[2], CHUNK_HEIGHT \div 2, overflow_checks)
        ux == AsUsize(position[1])
        uy == AsUsize(y.val)
        uz == AsUsize(position[3])
    IN  IF y.panic THEN Panic
        ELSE IF UsizeLess(ux, CHUNK_WIDTH) /\ UsizeLess(uy, CHUNK_HEIGHT)
                /\ UsizeLess(uz, CHUNK_DEPTH)
             THEN Some(BlocksAt(chunk, ux.low, uy.low, uz.low))
             ELSE None

\* the write of Chunk::set_block into the dense array: blocks[[x as usize,
\* (y + 128) as usize, z as usize]] = block.  Indexing outside the
\* dimensions panics; so does a y whose bias overflows (checked build) or
\* wraps to a negative index (unchecked build).
chunk_set_block(chunk, position, block) ==
    LET y == AddI32(position[2], CHUNK_HEIGHT \div 2, FALSE)
        ux == AsUsize(position[1])
        uy == AsUsize(y.val)
        uz == AsUsize(position[3])
    IN  IF UsizeLess(ux, CHUNK_WIDTH) /\ UsizeLess(uy, CHUNK_HEIGHT)
           /\ UsizeLess(uz, CHUNK_DEPTH)
        THEN [panic |-> FALSE,
              chunk |-> [chunk EXCEPT !.blocks =
                           [p \in (DOMAIN chunk.blocks) \cup {position} |->
                              IF p = position THEN block ELSE chunk.blocks[p]]]]
        ELSE [panic |-> TRUE, chunk |-> chunk]

\* ------------------------------------------------------------------------
\* ChunkMesh (chunk.rs)
\* ------------------------------------------------------------------------
ZeroVertex == <<0, 0, 0, 0, 0>>

\* ChunkMesh::new: both buffers zeroed
NewChunkMesh(uniform_offset) ==
    [vertex_buffer |-> << >>, index_buffer |-> << >>,
     num_elements |-> 36 * CHUNK_SIZE, uniform_offset |-> uniform_offset]

\* the byte lengths of the two buffers ChunkMesh::new creates: the contents
\* are [0u32; size_of::<ChunkVertex>() * 24 * CHUNK_SIZE] and
\* [0u32; 36 * CHUNK_SIZE]
VertexBufferBytes == SizeOfU32 * (SizeOfChunkVertex * 24 * CHUNK_SIZE)
IndexBufferBytes == SizeOfU32 * (36 * CHUNK_SIZE)

\* the element of a buffer at a slot
SlotAt(buf, s, zero) == IF s \in DOMAIN buf THEN buf[s] ELSE zero

\* write_buffer: `data` (a sequence of elements) at element slot `start`
write_buffer(buf, start, data, zero) ==
    LET range == start .. (start + Len(data) - 1)
        dom == ((DOMAIN buf) \ range) \cup { s \in range : data[s - start + 1] # zero }
    IN  [s \in dom |-> IF s \in range THEN data[s - start + 1] ELSE buf[s]]

\* mutant: the y coordinate is flattened without its bias
flatten_3d_unbiased(v) ==
    v[1] + CHUNK_WIDTH * (v[2] + CHUNK_HEIGHT * v[3])

flatten_3d(v) ==
    v[1] + CHUNK_WIDTH * (v[2] + CHUNK_HEIGHT \div 2 + CHUNK_HEIGHT * v[3])

\* mutant: the index offset counts 24 slots per cell, as the vertex offset does
get_buf_offset_index_stride(chunk_position, face) ==
    LET flattened == flatten_3d(chunk_position)
    IN  << flattened * SizeOfChunkVertex * 24 + index(face) * SizeOfChunkVertex * 4,
           flattened * SizeOfU32 * 24 + index(face) * SizeOfU32 * 6 >>

\* byte offsets of the face's vertices and indices
get_buf_offset(chunk_position, face) ==
    LET flattened == flatten_3d(chunk_position)
    IN  << flattened * SizeOfChunkVertex * 24 + index(face) * SizeOfChunkVertex * 4,
           flattened * SizeOfU32 * 36 + index(face) * SizeOfU32 * 6 >>

\* mutant: the indices are added to what the slots hold instead of replacing it
add_face_accumulating(mesh, chunk_position, face, block) ==
    LET flattened == flatten_3d(chunk_position)
        tex == to_vec(texture_coordinates(block))
        verts == cube_verts(face)
        vertices == [k \in 1..4 |->
                       << verts[k][1] + 2 * chunk_position[1],
                          verts[k][2] + 2 * chunk_position[2],
                          verts[k][3] + 2 * chunk_position[3],
                          tex[index(face) * 4 + k][1],
                          tex[index(face) * 4 + k][2] >>]
        off == get_buf_offset(chunk_position, face)
        inds == [k \in 1..6 |->
                   SlotAt(mesh.index_buffer, off[2] \div SizeOfU32 + k - 1, 0)
                      + cube_indices(face)[k] + 24 * flattened]
    IN  [mesh EXCEPT
           !.vertex_buffer = write_buffer(@, off[1] \div SizeOfChunkVertex, vertices, ZeroVertex),
           !.index_buffer = write_buffer(@, off[2] \div SizeOfU32, inds, 0)]

add_face(mesh, chunk_position, face, block) ==
    LET flattened == flatten_3d(chunk_position)
        tex == to_vec(texture_coordinates(block))
        verts == cube_verts(face)
        vertices == [k \in 1..4 |->
                       << verts[k][1] + 2 * chunk_position[1],
                          verts[k][2] + 2 * chunk_position[2],
                          verts[k][3] + 2 * chunk_position[3],
                          tex[index(face) * 4 + k][1],
                          tex[index(face) * 4 + k][2] >>]
        off == get_buf_offset(chunk_position, face)
        inds == [k \in 1..6 |-> cube_indices(face)[k] + 24 * flattened]
    IN  [mesh EXCEPT
           !.vertex_buffer = write_buffer(@, off[1] \div SizeOfChunkVertex, vertices, ZeroVertex),
           !.index_buffer = write_buffer(@, off[2] \div SizeOfU32, inds, 0)]

\* mutant: only the vertices of the face are zeroed, its indices stay
remove_face_vertices_only(mesh, position, face) ==
    LET off == get_buf_offset(position, face)
    IN  [mesh EXCEPT
           !.vertex_buffer = write_buffer(@, off[1] \div SizeOfChunkVertex,
                                          [k \in 1..4 |-> ZeroVertex], ZeroVertex)]

remove_face(mesh, position, face) ==
    LET off == get_buf_offset(position, face)
    IN  [mesh EXCEPT
           !.vertex_buffer = write_buffer(@, off[1] \div SizeOfChunkVertex,
                                          [k \in 1..4 |-> ZeroVertex], ZeroVertex),
           !.index_buffer = write_buffer(@, off[2] \div SizeOfU32, [k \in 1..6 |-> 0], 0)]

\* ------------------------------------------------------------------------
\* Input<T> (engine/input/input.rs) and the mouse button system
\* (engine/input/mouse.rs)
\* ------------------------------------------------------------------------
\* Input::default: three empty sets
NewInput == [pressed |-> {}, just_pressed |-> {}, just_released |-> {}]

\* mutant: every press is reported as just pressed, held or not
press_unconditional(inp, x) ==
    [inp EXCEPT !.pressed = @ \cup {x}, !.just_pressed = @ \cup {x}]

\* Input::press: HashSet::insert returns true when the value was not present
press(inp, x) ==
    IF x \notin inp.pressed
    THEN [inp EXCEPT !.pressed = @ \cup {x}, !.just_pressed = @ \cup {x}]
    ELSE inp

\* Input::release: HashSet::remove returns true when the value was present
release(inp, x) ==
    IF x \in inp.pressed
    THEN [inp EXCEPT !.pressed = @ \ {x}, !.just_released = @ \cup {x}]
    ELSE inp

\* Input::clear
clear(inp) == [inp EXCEPT !.just_pressed = {}, !.just_released = {}]

\* the loop of mouse_button_input_system over the events read, from event k
RECURSIVE mouse_button_events(_, _, _)
mouse_button_events(inp, events, k) ==
    IF k > Len(events) THEN inp
    ELSE mouse_button_events(
             IF events[k].state = "Pressed"
             THEN press(inp, events[k].button)
             ELSE release(inp, events[k].button),
             events, k + 1)

\* mouse_button_input_system: clear, then every event in order
mouse_button_input_system(inp, events) ==
    mouse_button_events(clear(inp), events, 1)

\* ------------------------------------------------------------------------
\* Duration: a count of nanoseconds, kept as three 16-bit limbs, least
\* significant first, so that counts beyond 32 bits can be told apart
\* ------------------------------------------------------------------------
Limb == 65536

\* Duration::from_nanos(n) for n below one limb
Nanos(n) == <<n, 0, 0>>

\* Duration + Duration; `carry` is what does not fit in the three limbs
DurationAdd(a, b) ==
    LET s0 == a[1] + b[1]
        s1 == a[2] + b[2] + s0 \div Limb
        s2 == a[3] + b[3] + s1 \div Limb
    IN  [carry |-> s2 \div Limb, val |-> <<s0 % Limb, s1 % Limb, s2 % Limb>>]

\* a < b and a <= b
DurationLess(a, b) ==
    \/ a[3] < b[3]
    \/ a[3] = b[3] /\ a[2] < b[2]
    \/ a[3] = b[3] /\ a[2] = b[2] /\ a[1] < b[1]
DurationLeq(a, b) == a = b \/ DurationLess(a, b)

\* Duration - Duration, which panics when b > a
DurationSub(a, b) ==
    LET d0 == a[1] - b[1]
        b0 == IF d0 < 0 THEN 1 ELSE 0
        d1 == a[2] - b[2] - b0
        b1 == IF d1 < 0 THEN 1 ELSE 0
        d2 == a[3] - b[3] - b1
    IN  [panic |-> d2 < 0,
         val |-> <<(d0 + Limb) % Limb, (d1 + Limb) % Limb, (d2 + Limb) % Limb>>]

\* (a.as_nanos() / d.as_nanos()) as u32, for a divisor d of one limb below
\* 2^15: the quotient of the u128 division, of which the cast keeps the low
\* 32 bits, the two low limbs.  Division by zero panics.
DivNanosAsU32(a, d) ==
    IF d[1] = 0 THEN [panic |-> TRUE, val |-> <<0, 0>>]
    ELSE LET r2 == a[3] % d[1]
             t1 == r2 * Limb + a[2]
             t0 == (t1 % d[1]) * Limb + a[1]
         IN  [panic |-> FALSE, val |-> <<t0 \div d[1], t1 \div d[1]>>]

\* Duration * u32, for a duration of one limb below 2^15
DurationMulU32(d, n) ==
    LET p0 == d[1] * n[1]
        p1 == d[1] * n[2] + p0 \div Limb
    IN  <<p0 % Limb, p1 % Limb, p1 \div Limb>>

\* u32 values as two limbs
U32(n) == <<n, 0>>

\* ------------------------------------------------------------------------
\* Stopwatch and Timer (engine/time/stopwatch.rs, engine/time/timer.rs)
\* ------------------------------------------------------------------------
\* Timer::new(duration, repeating): the other fields are defaults
NewTimer(duration, repeating) ==
    [stopwatch |-> [elapsed |-> Nanos(0), paused |-> FALSE],
     duration |-> duration,
     repeating |-> repeating,
     finished |-> FALSE,
     times_finished_this_tick |-> U32(0)]

\* Timer::just_finished
just_finished(t) == t.times_finished_this_tick # U32(0)

\* Stopwatch::tick; `carry` is the part of the sum beyond the three limbs
stopwatch_tick(sw, delta) ==
    IF ~sw.paused
    THEN [carry |-> DurationAdd(sw.elapsed, delta).carry,
          sw |-> [sw EXCEPT !.elapsed = DurationAdd(sw.elapsed, delta).val]]
    ELSE [carry |-> 0, sw |-> sw]

\* mutant: a finished non-repeating timer keeps the elapsed time it reached
tick_unclamped(t, delta) ==
    IF t.stopwatch.paused
    THEN [panic |-> FALSE,
          timer |-> [t EXCEPT !.times_finished_this_tick = U32(0),
                              !.finished = IF t.repeating THEN FALSE ELSE @]]
    ELSE IF ~t.repeating /\ t.finished
    THEN [panic |-> FALSE, timer |-> [t EXCEPT !.times_finished_this_tick = U32(0)]]
    ELSE LET sw == stopwatch_tick(t.stopwatch, delta).sw
             fin == DurationLeq(t.duration, sw.elapsed)
             times == DivNanosAsU32(sw.elapsed, t.duration)
             rest == DurationSub(sw.elapsed, DurationMulU32(t.duration, times.val))
         IN  IF ~fin
             THEN [panic |-> FALSE,
                   timer |-> [t EXCEPT !.stopwatch = sw, !.finished = FALSE,
                                       !.times_finished_this_tick = U32(0)]]
             ELSE IF t.repeating
             THEN IF times.panic \/ rest.panic
                  THEN [panic |-> TRUE, timer |-> t]
                  ELSE [panic |-> FALSE,
                        timer |-> [t EXCEPT !.stopwatch = [sw EXCEPT !.elapsed = rest.val],
                                            !.finished = TRUE,
                                            !.times_finished_this_tick = times.val]]
             ELSE [panic |-> FALSE,
                   timer |-> [t EXCEPT !.stopwatch = sw,
                                       !.finished = TRUE,
                                       !.times_finished_this_tick = U32(1)]]

\* Timer::tick: whether it panicked, and the timer it leaves
tick(t, delta) ==
    IF t.stopwatch.paused
    THEN [panic |-> FALSE,
          timer |-> [t EXCEPT !.times_finished_this_tick = U32(0),
                              !.finished = IF t.repeating THEN FALSE ELSE @]]
    ELSE IF ~t.repeating /\ t.finished
    THEN [panic |-> FALSE, timer |-> [t EXCEPT !.times_finished_this_tick = U32(0)]]
    ELSE LET sw == stopwatch_tick(t.stopwatch, delta).sw
             fin == DurationLeq(t.duration, sw.elapsed)
             times == DivNanosAsU32(sw.elapsed, t.duration)
             rest == DurationSub(sw.elapsed, DurationMulU32(t.duration, times.val))
         IN  IF ~fin
             THEN [panic |-> FALSE,
                   timer |-> [t EXCEPT !.stopwatch = sw, !.finished = FALSE,
                                       !.times_finished_this_tick = U32(0)]]
             ELSE IF t.repeating
             THEN IF times.panic \/ rest.panic
                  THEN [panic |-> TRUE, timer |-> t]
                  ELSE [panic |-> FALSE,
                        timer |-> [t EXCEPT !.stopwatch = [sw EXCEPT !.elapsed = rest.val],
                                            !.finished = TRUE,
                                            !.times_finished_this_tick = times.val]]
             ELSE [panic |-> FALSE,
                   timer |-> [t EXCEPT !.stopwatch = [sw EXCEPT !.elapsed = t.duration],
                                       !.finished = TRUE,
                                       !.times_finished_this_tick = U32(1)]]

\* ------------------------------------------------------------------------
\* World (world.rs)
\* ------------------------------------------------------------------------
VARIABLES
    chunk_map,      \* HashMap<Vector2<i32>, usize>: grid coordinate -> index
    chunks,         \* Vec<Chunk>
    chunk_meshes,   \* Vec<ChunkMesh>
    gpu_buffers,    \* per mesh, the contents of its buffers on the device
    last,           \* the last call made, its arguments and how it ended
    calls,          \* number of calls made since the initial state
    input,          \* Input<MouseButton>
    timer           \* a Timer

vars == <<chunk_map, chunks, chunk_meshes, gpu_buffers, last, calls, input, timer>>

\* Vec::get with a 0-based index
VecHas(vec, i) == i >= 0 /\ i < Len(vec)
VecGet(vec, i) == vec[i + 1]

\* World::get_chunk_index_by_offset
get_chunk_index_by_offset(map, offset) ==
    IF offset \in DOMAIN map THEN Some(map[offset]) ELSE None

\* mutant: between two solid cells only the face of the cell being set is
\* removed, the neighbour keeps its opposite face
face_in_chunk_own_only(mesh, position, face, block, neighbor) ==
    LET is_air == block = "Air"
    IN  IF neighbor = "Air"
        THEN IF ~is_air THEN add_face(mesh, position, face, block) ELSE mesh
        ELSE IF is_air
             THEN add_face(mesh, position, get_opposite(face), neighbor)
             ELSE remove_face(mesh, position, face)

\* mutant: between two solid cells the neighbour loses its face in the same
\* direction instead of the face opposite to it
face_in_chunk_same_direction(mesh, position, face, block, neighbor) ==
    LET is_air == block = "Air"
        v == add_element_wise3(to_vec3(face), position)
    IN  IF neighbor = "Air"
        THEN IF ~is_air THEN add_face(mesh, position, face, block) ELSE mesh
        ELSE IF is_air
             THEN add_face(mesh, position, get_opposite(face), neighbor)
             ELSE remove_face(remove_face(mesh, position, face), v, face)

\* set_block, the neighbour is a cell of the same chunk: the edit of the
\* chunk's own mesh
face_in_chunk(mesh, position, face, block, neighbor) ==
    LET is_air == block = "Air"
        v == add_element_wise3(to_vec3(face), position)
    IN  IF neighbor = "Air"
        THEN IF ~is_air THEN add_face(mesh, position, face, block) ELSE mesh
        ELSE IF is_air
             THEN add_face(mesh, position, get_opposite(face), neighbor)
             ELSE remove_face(remove_face(mesh, position, face), v, get_opposite(face))

\* mutant: with no chunk registered beyond the edge the face is not added
face_on_edge_hidden(map, chunkvec, meshes, chunk_index, position, face, block) ==
    LET chunk == VecGet(chunkvec, chunk_index)
        is_air == block = "Air"
        face_vec == to_vec3(face)
        v == add_element_wise3(face_vec, position)
        found == get_chunk_index_by_offset(map,
                     add_element_wise2(<<face_vec[1], face_vec[3]>>, chunk.world_offset))
        add_own == IF VecHas(meshes, chunk_index)
                   THEN [meshes EXCEPT ![chunk_index + 1] = add_face(@, position, face, block)]
                   ELSE meshes
    IN  IF ~found.some THEN meshes
        ELSE IF ~(VecHas(chunkvec, found.val) /\ VecHas(meshes, found.val)) THEN meshes
        ELSE LET neighbor_chunk_block_position ==
                     <<v[1] % CHUNK_WIDTH, v[2], v[3] % CHUNK_DEPTH>>
                 neighbor_chunk_block ==
                     IF ~(v[1] \in 0..15) \/ ~(v[3] \in 0..15)
                     THEN get_block(VecGet(chunkvec, found.val),
                                    neighbor_chunk_block_position, TRUE)
                     ELSE None
             IN  IF is_air THEN meshes
                 ELSE IF neighbor_chunk_block.some
                      THEN IF neighbor_chunk_block.val = "Air"
                           THEN add_own
                           ELSE [meshes EXCEPT ![found.val + 1] =
                                   remove_face(@, neighbor_chunk_block_position,
                                               get_opposite(face))]
                      ELSE add_own

\* set_block, the neighbour position is outside the chunk: the meshes after
\* the lookup of the adjoining chunk and the edit it leads to
face_on_edge(map, chunkvec, meshes, chunk_index, position, face, block) ==
    LET chunk == VecGet(chunkvec, chunk_index)
        is_air == block = "Air"
        face_vec == to_vec3(face)
        v == add_element_wise3(face_vec, position)
        found == get_chunk_index_by_offset(map,
                     add_element_wise2(<<face_vec[1], face_vec[3]>>, chunk.world_offset))
        add_own == IF VecHas(meshes, chunk_index)
                   THEN [meshes EXCEPT ![chunk_index + 1] = add_face(@, position, face, block)]
                   ELSE meshes
    IN  IF ~found.some THEN add_own
        ELSE IF ~(VecHas(chunkvec, found.val) /\ VecHas(meshes, found.val)) THEN meshes
        ELSE LET neighbor_chunk_block_position ==
                     <<v[1] % CHUNK_WIDTH, v[2], v[3] % CHUNK_DEPTH>>
                 neighbor_chunk_block ==
                     IF ~(v[1] \in 0..15) \/ ~(v[3] \in 0..15)
                     THEN get_block(VecGet(chunkvec, found.val),
                                    neighbor_chunk_block_position, TRUE)
                     ELSE None
             IN  IF is_air THEN meshes
                 ELSE IF neighbor_chunk_block.some
                      THEN IF neighbor_chunk_block.val = "Air"
                           THEN add_own
                           ELSE [meshes EXCEPT ![found.val + 1] =
                                   remove_face(@, neighbor_chunk_block_position,
                                               get_opposite(face))]
                      ELSE add_own

\* mutant: the edit for a neighbour inside the chunk is made in every mesh,
\* not only in the mesh at chunk_index
set_block_face_every_mesh(map, chunkvec, meshes, chunk_index, position, block, face) ==
    LET neighbor == get_block(VecGet(chunkvec, chunk_index),
                              add_element_wise3(to_vec3(face), position), TRUE)
    IN  IF neighbor.some
        THEN [i \in DOMAIN meshes |->
                face_in_chunk(meshes[i], position, face, block, neighbor.val)]
        ELSE face_on_edge(map, chunkvec, meshes, chunk_index, position, face, block)

\* the body of the loop of set_block for one face
set_block_face(map, chunkvec, meshes, chunk_index, position, block, face) ==
    LET neighbor == get_block(VecGet(chunkvec, chunk_index),
                              add_element_wise3(to_vec3(face), position), TRUE)
    IN  IF neighbor.some
        THEN IF VecHas(meshes, chunk_index)
             THEN [meshes EXCEPT ![chunk_index + 1] =
                     face_in_chunk(@, position, face, block, neighbor.val)]
             ELSE meshes
        ELSE face_on_edge(map, chunkvec, meshes, chunk_index, position, face, block)

RECURSIVE set_block_faces(_, _, _, _, _, _, _)
\* the loop of set_block over the faces, from face number k on
set_block_faces(map, chunkvec, meshes, chunk_index, position, block, k) ==
    IF k > Len(faces) THEN meshes
    ELSE set_block_faces(map, chunkvec,
             set_block_face(map, chunkvec, meshes, chunk_index, position, block, faces[k]),
             chunk_index, position, block, k + 1)

\* mutant: an index past the end of the chunks is clamped to the last chunk
set_block_clamped(world, chunk_index, position, block) ==
    LET clamped == IF VecHas(world.chunks, chunk_index) THEN chunk_index
                   ELSE Len(world.chunks) - 1
    IN  IF ~VecHas(world.chunks, clamped) THEN [panic |-> FALSE, world |-> world]
        ELSE LET written == chunk_set_block(VecGet(world.chunks, clamped), position, block)
                 chunkvec == [world.chunks EXCEPT ![clamped + 1] = written.chunk]
             IN  IF written.panic THEN [panic |-> TRUE, world |-> world]
                 ELSE [panic |-> FALSE,
                       world |-> [chunk_map |-> world.chunk_map,
                                  chunks |-> chunkvec,
                                  chunk_meshes |->
                                      set_block_faces(world.chunk_map, chunkvec,
                                          world.chunk_meshes, clamped, position, block, 1)]]

\* World::set_block on the World value `world`: whether it panicked, and the
\* World it leaves
set_block(world, chunk_index, position, block) ==
    IF ~VecHas(world.chunks, chunk_index) THEN [panic |-> FALSE, world |-> world]
    ELSE LET written == chunk_set_block(VecGet(world.chunks, chunk_index), position, block)
             chunkvec == [world.chunks EXCEPT ![chunk_index + 1] = written.chunk]
         IN  IF written.panic THEN [panic |-> TRUE, world |-> world]
             ELSE [panic |-> FALSE,
                   world |-> [chunk_map |-> world.chunk_map,
                              chunks |-> chunkvec,
                              chunk_meshes |->
                                  set_block_faces(world.chunk_map, chunkvec,
                                      world.chunk_meshes, chunk_index, position, block, 1)]]

\* the device buffers of a mesh as ChunkMesh::new creates them: zeroed
NewGpuBuffers == [vertex_buffer |-> << >>, index_buffer |-> << >>]

\* ChunkMesh::buffer_write: the device buffers after the whole vertex and
\* index arrays of the mesh have been written to them
buffer_write(mesh) ==
    [vertex_buffer |-> mesh.vertex_buffer, index_buffer |-> mesh.index_buffer]

\* the World as one value
World == [chunk_map |-> chunk_map, chunks |-> chunks, chunk_meshes |-> chunk_meshes]

\* World::new
Init ==
    /\ chunk_map = << >>
    /\ chunks = << >>
    /\ chunk_meshes = << >>
    /\ gpu_buffers = << >>
    /\ last = [op |-> "new", panicked |-> FALSE]
    /\ calls = 0
    /\ input = NewInput
    /\ timer = NewTimer(Nanos(0), FALSE)

\* mutant: the map records the length of the collection, not the index of
\* the chunk just pushed
new_chunk_off_by_one(chunk_location, uniform_offset) ==
    /\ calls < MaxCalls
    /\ ~last.panicked
    /\ calls' = calls + 1
    /\ UNCHANGED <<input, timer>>
    /\ chunks' = Append(chunks, NewChunk(chunk_location))
    /\ chunk_meshes' = Append(chunk_meshes, NewChunkMesh(uniform_offset))
    /\ gpu_buffers' = Append(gpu_buffers, NewGpuBuffers)
    /\ chunk_map' = [c \in (DOMAIN chunk_map) \cup {chunk_location} |->
                       IF c = chunk_location THEN Len(chunks') ELSE chunk_map[c]]
    /\ last' = [op |-> "new_chunk", chunk_location |-> chunk_location,
                ret |-> Len(chunks'), panicked |-> FALSE]

\* World::new_chunk(chunk_location, uniform_offset, device)
new_chunk(chunk_location, uniform_offset) ==
    /\ calls < MaxCalls
    /\ ~last.panicked
    /\ calls' = calls + 1
    /\ UNCHANGED <<input, timer>>
    /\ chunks' = Append(chunks, NewChunk(chunk_location))
    /\ chunk_meshes' = Append(chunk_meshes, NewChunkMesh(uniform_offset))
    /\ gpu_buffers' = Append(gpu_buffers, NewGpuBuffers)
    /\ chunk_map' = [c \in (DOMAIN chunk_map) \cup {chunk_location} |->
                       IF c = chunk_location THEN Len(chunks') - 1 ELSE chunk_map[c]]
    /\ last' = [op |-> "new_chunk", chunk_location |-> chunk_location,
                ret |-> Len(chunks') - 1, panicked |-> FALSE]

\* a call World::set_block(chunk_index, position, block)
SetBlock(chunk_index, position, block) ==
    /\ calls < MaxCalls
    /\ ~last.panicked
    /\ calls' = calls + 1
    /\ UNCHANGED <<input, timer>>
    /\ UNCHANGED gpu_buffers
    /\ \E after \in {set_block(World, chunk_index, position, block)} :
          /\ chunk_map' = after.world.chunk_map
          /\ chunks' = after.world.chunks
          /\ chunk_meshes' = after.world.chunk_meshes
          /\ last' = [op |-> "set_block", chunk_index |-> chunk_index,
                      position |-> position, block |-> block,
                      repeated |-> /\ last.op = "set_block"
                                   /\ last.chunk_index = chunk_index
                                   /\ last.position = position
                                   /\ last.block = block,
                      panicked |-> after.panic]

\* mutant: the loop over the meshes stops after the first mesh
UpdateBuffers_first_only ==
    /\ calls < MaxCalls
    /\ ~last.panicked
    /\ calls' = calls + 1
    /\ UNCHANGED <<input, timer>>
    /\ gpu_buffers' = [i \in 1..Len(chunk_meshes) |->
                          IF i = 1 THEN buffer_write(chunk_meshes[i]) ELSE gpu_buffers[i]]
    /\ last' = [op |-> "update_buffers", panicked |-> FALSE]
    /\ UNCHANGED <<chunk_map, chunks, chunk_meshes>>

\* World::update_buffers: buffer_write on every mesh
UpdateBuffers ==
    /\ calls < MaxCalls
    /\ ~last.panicked
    /\ calls' = calls + 1
    /\ UNCHANGED <<input, timer>>
    /\ gpu_buffers' = [i \in 1..Len(chunk_meshes) |-> buffer_write(chunk_meshes[i])]
    /\ last' = [op |-> "update_buffers", panicked |-> FALSE]
    /\ UNCHANGED <<chunk_map, chunks, chunk_meshes>>

Next ==
    \/ \E chunk_location \in ChunkLocations, uniform_offset \in UniformOffsets :
           new_chunk(chunk_location, uniform_offset)
    \/ \E chunk_index \in 0..Len(chunks), position \in Positions \cup OutsidePositions,
          block \in Blocks :
           SetBlock(chunk_index, position, block)

Spec == Init /\ [][Next]_vars

\* the cells set_block is called on between flushes: the two cells that
\* face each other across the boundary of the chunks at (0, 0) and (1, 0)
FlushPositions == { <<15, 0, 5>>, <<0, 0, 5>> }

\* the calls of Next on the boundary cells, and World::update_buffers
NextFlush ==
    \/ \E chunk_location \in ChunkLocations, uniform_offset \in UniformOffsets :
           new_chunk(chunk_location, uniform_offset)
    \/ \E chunk_index \in 0..Len(chunks), position \in FlushPositions, block \in Blocks :
           SetBlock(chunk_index, position, block)
    \/ UpdateBuffers

SpecFlush == Init /\ [][NextFlush]_vars

\* the chunk at (0, 0) and the chunks adjoining it across its x = 15 edge and
\* across its z = 15 edge
CornerLocations == << <<0, 0>>, <<1, 0>>, <<0, 1>> >>

\* (chunk index, cell) pairs set_block is called on: the corner cell of
\* chunk 0 that touches both adjoining chunks, its counterparts in them,
\* and an edge cell of chunk 0 with its counterpart in chunk 1
CornerCells ==
    { <<0, <<15, 0, 15>>>>, <<1, <<0, 0, 15>>>>, <<2, <<15, 0, 0>>>>,
      <<0, <<15, 0, 5>>>>, <<1, <<0, 0, 5>>>> }

\* World::new and new_chunk(CornerLocations[k], 0) for k = 1, 2, 3
InitCorner ==
    /\ chunk_map = [c \in {CornerLocations[k] : k \in 1..3} |->
                      (CHOOSE k \in 1..3 : CornerLocations[k] = c) - 1]
    /\ chunks = [k \in 1..3 |-> NewChunk(CornerLocations[k])]
    /\ chunk_meshes = [k \in 1..3 |-> NewChunkMesh(0)]
    /\ gpu_buffers = [k \in 1..3 |-> NewGpuBuffers]
    /\ last = [op |-> "new_chunk", chunk_location |-> CornerLocations[3],
               ret |-> 2, panicked |-> FALSE]
    /\ calls = 0
    /\ input = NewInput
    /\ timer = NewTimer(Nanos(0), FALSE)

NextCorner ==
    \E cell \in CornerCells, block \in Blocks : SetBlock(cell[1], cell[2], block)

SpecCorner == InitCorner /\ [][NextCorner]_vars

\* ------------------------------------------------------------------------
\* Calls of the pure functions: Chunk::get_block, ChunkMesh::flatten_3d and
\* ChunkMesh::get_buf_offset, on a chunk whose Positions all hold Stone
\* ------------------------------------------------------------------------
RECURSIVE Filled(_, _)
\* the World after set_block(0, P, "Stone") for every P of the set S
Filled(world, S) ==
    IF S = {} THEN world
    ELSE LET P == CHOOSE Q \in S : TRUE
         IN  Filled(set_block(world, 0, P, "Stone").world, S \ {P})

\* coordinates handed to get_block: around every bound of the dimensions,
\* one and two widths / heights past them, and the ends of i32
ProbeX == {I32Min, -1, 0, 14, 15, 16, I32Max}
ProbeY == {I32Min, -129, -128, -1, 0, 127, 128, 384,
           I32Max - 128, I32Max - 127, I32Max}
ProbeZ == {I32Min, -1, 0, 5, 15, 16, I32Max}

\* local positions inside the chunk handed to get_buf_offset
ValidX == {0, 1, 14, 15}
ValidY == {-128, -127, -1, 0, 1, 126, 127}
ValidZ == {0, 1, 14, 15}

\* World::new, new_chunk((0, 0), 0) and a Stone block set at every Position
InitPure ==
    \E world \in { Filled([chunk_map |-> (<<0, 0>> :> 0),
                            chunks |-> <<NewChunk(<<0, 0>>)>>,
                            chunk_meshes |-> <<NewChunkMesh(0)>>], Positions) } :
       /\ chunk_map = world.chunk_map
       /\ chunks = world.chunks
       /\ chunk_meshes = world.chunk_meshes
       /\ gpu_buffers = <<NewGpuBuffers>>
       /\ last = [op |-> "new", panicked |-> FALSE]
       /\ calls = 0
       /\ input = NewInput
       /\ timer = NewTimer(Nanos(0), FALSE)

\* a call chunk.get_block(position) on chunk 0, in a build with or without
\* overflow checks
GetBlock(position, overflow_checks) ==
    /\ ~last.panicked
    /\ \E ret \in {get_block(VecGet(chunks, 0), position, overflow_checks)} :
          last' = [op |-> "get_block", position |-> position,
                   overflow_checks |-> overflow_checks, ret |-> ret,
                   panicked |-> ret.panic]
    /\ UNCHANGED <<chunk_map, chunks, chunk_meshes, gpu_buffers, calls, input, timer>>

\* a call ChunkMesh::get_buf_offset(chunk_position, face)
GetBufOffset(chunk_position, face) ==
    /\ ~last.panicked
    /\ last' = [op |-> "get_buf_offset", position |-> chunk_position, face |-> face,
                flattened |-> flatten_3d(chunk_position),
                ret |-> get_buf_offset(chunk_position, face), panicked |-> FALSE]
    /\ UNCHANGED <<chunk_map, chunks, chunk_meshes, gpu_buffers, calls, input, timer>>

\* ------------------------------------------------------------------------
\* trait_enum! (trait_enum.rs) and init_blocks! (block.rs): the enums they
\* generate.  A value of the enum is its variant tag and the unit struct of
\* that variant; a struct is named by its type.
\* ------------------------------------------------------------------------
\* the variants of enum Animals of the tests, and of enum Block
Animals == {"Dog", "Cat"}
EnumVariants(enum_name) == IF enum_name = "Animals" THEN Animals ELSE {"Air", "Grass", "Dirt", "Stone"}
EnumNames == {"Animals", "Block"}

\* impl Animal for Dog / Cat: make_sound
make_sound(struct) == IF struct = "Dog" THEN "woof" ELSE "meow"

\* the trait method of an enum's trait, dispatched on the struct's type:
\* Animal::make_sound or BlockData::texture_coordinates
trait_method(struct) ==
    IF struct \in Animals THEN make_sound(struct) ELSE texture_coordinates(struct)

\* fn [<$name:lower>]() -> Self { $enum_name::$name($name) }
lower(name) == [variant |-> name, inner |-> name]

\* mutant: the match of as_<variant> takes the value of any variant
as_lower_any(name, self) == Some(self.inner)

\* fn [<as_ $name:lower>](&self) -> Option<&$name>
as_lower(name, self) == IF self.variant = name THEN Some(self.inner) ELSE None

\* mutant: the match of deref has the arm of the first variant only
deref_first_arm(self) == IF self.variant \in Animals THEN "Dog" ELSE "Air"

\* Deref::deref: match self { $enum_name::$name(v) => v }
deref(self) == self.inner

\* let value = Enum::<made>(); value.as_<asked>()
AsLower(enum_name, made, asked) ==
    /\ ~last.panicked
    /\ last' = [op |-> "as_lower", enum_name |-> enum_name, made |-> made,
                asked |-> asked, value |-> lower(made),
                ret |-> as_lower(asked, lower(made)), panicked |-> FALSE]
    /\ UNCHANGED <<chunk_map, chunks, chunk_meshes, gpu_buffers, calls, input, timer>>

\* let value = Enum::<made>(); value.deref().<trait method>()
Deref(enum_name, made) ==
    /\ ~last.panicked
    /\ last' = [op |-> "deref", enum_name |-> enum_name, made |-> made,
                value |-> lower(made), ret |-> trait_method(deref(lower(made))),
                panicked |-> FALSE]
    /\ UNCHANGED <<chunk_map, chunks, chunk_meshes, gpu_buffers, calls, input, timer>>

NextPure ==
    \/ \E x \in ProbeX, y \in ProbeY, z \in ProbeZ, overflow_checks \in BOOLEAN :
           GetBlock(<<x, y, z>>, overflow_checks)
    \/ \E x \in ValidX, y \in ValidY, z \in ValidZ, face \in Directions :
           GetBufOffset(<<x, y, z>>, face)
    \/ \E made \in Animals, asked \in Animals : AsLower("Animals", made, asked)
    \/ \E enum_name \in EnumNames : \E made \in EnumVariants(enum_name) :
           Deref(enum_name, made)

SpecPure == InitPure /\ [][NextPure]_vars

\* ------------------------------------------------------------------------
\* Calls of ChunkMesh::add_face and ChunkMesh::remove_face on the mesh of
\* one chunk
\* ------------------------------------------------------------------------
MaxMeshCalls == 2

\* the cells and blocks handed to add_face and remove_face: the first and
\* the last cell of the chunk and the cell that holds a block
MeshPositions == { <<0, -128, 0>>, <<14, 0, 5>>, <<15, 127, 15>> }
MeshBlocks == {"Air", "Grass"}

\* World::new, new_chunk((0, 0), 0) and set_block(0, (14, 0, 5), Stone)
InitMesh ==
    \E world \in { Filled([chunk_map |-> (<<0, 0>> :> 0),
                            chunks |-> <<NewChunk(<<0, 0>>)>>,
                            chunk_meshes |-> <<NewChunkMesh(0)>>], {<<14, 0, 5>>}) } :
       /\ chunk_map = world.chunk_map
       /\ chunks = world.chunks
       /\ chunk_meshes = world.chunk_meshes
       /\ gpu_buffers = <<NewGpuBuffers>>
       /\ last = [op |-> "new", panicked |-> FALSE]
       /\ calls = 0
       /\ input = NewInput
       /\ timer = NewTimer(Nanos(0), FALSE)

\* a call mesh.add_face(chunk_position, face, block) on the mesh of chunk 0
AddFace(chunk_position, face, block) ==
    /\ calls < MaxMeshCalls
    /\ calls' = calls + 1
    /\ UNCHANGED <<input, timer>>
    /\ chunk_meshes' = [chunk_meshes EXCEPT ![1] = add_face(@, chunk_position, face, block)]
    /\ last' = [op |-> "add_face", position |-> chunk_position, face |-> face,
                block |-> block, after_add |-> FALSE, panicked |-> FALSE]
    /\ UNCHANGED <<chunk_map, chunks, gpu_buffers>>

\* a call mesh.remove_face(position, face) on the mesh of chunk 0
RemoveFace(position, face) ==
    /\ calls < MaxMeshCalls
    /\ calls' = calls + 1
    /\ UNCHANGED <<input, timer>>
    /\ chunk_meshes' = [chunk_meshes EXCEPT ![1] = remove_face(@, position, face)]
    /\ last' = [op |-> "remove_face", position |-> position, face |-> face,
                after_add |-> /\ last.op = "add_face"
                              /\ last.position = position
                              /\ last.face = face,
                panicked |-> FALSE]
    /\ UNCHANGED <<chunk_map, chunks, gpu_buffers>>

NextMesh ==
    \/ \E chunk_position \in MeshPositions, face \in Directions, block \in MeshBlocks :
           AddFace(chunk_position, face, block)
    \/ \E position \in MeshPositions, face \in Directions :
           RemoveFace(position, face)

SpecMesh == InitMesh /\ [][NextMesh]_vars

\* ------------------------------------------------------------------------
\* Vocabulary of the properties
\* ------------------------------------------------------------------------
\* the vertex slots and index slots reserved for face d of cell P:
\* [cell * 24 + d * 4, +4) and [cell * 36 + d * 6, +6)
VertexSlots(P, d) ==
    (flatten_3d(P) * 24 + index(d) * 4) .. (flatten_3d(P) * 24 + index(d) * 4 + 3)
IndexSlots(P, d) ==
    (flatten_3d(P) * 36 + index(d) * 6) .. (flatten_3d(P) * 36 + index(d) * 6 + 5)

\* every vertex and index slot of face d of cell P is zero in the mesh
FaceZero(mesh, P, d) ==
    /\ VertexSlots(P, d) \cap DOMAIN mesh.vertex_buffer = {}
    /\ IndexSlots(P, d) \cap DOMAIN mesh.index_buffer = {}

\* the position is inside the chunk's dimensions: 0 <= x < width,
\* 0 <= y + height/2 < height, 0 <= z < depth
InChunk(P) ==
    /\ 0 <= P[1] /\ P[1] < CHUNK_WIDTH
    /\ -(CHUNK_HEIGHT \div 2) <= P[2] /\ P[2] < CHUNK_HEIGHT \div 2
    /\ 0 <= P[3] /\ P[3] < CHUNK_DEPTH

\* the block of cell P of a chunk (P inside the chunk)
BlockOf(chunk, P) == IF P \in DOMAIN chunk.blocks THEN chunk.blocks[P] ELSE "Air"

ChunkIndices == 0 .. (Len(chunks) - 1)

\* the grid coordinate of the chunk adjoining chunk i across face d
AdjoiningLocation(i, d) ==
    <<chunks[i + 1].world_offset[1] + to_vec3(d)[1],
      chunks[i + 1].world_offset[2] + to_vec3(d)[3]>>

\* the position of P + d seen from the adjoining chunk: the horizontal
\* coordinates wrapped, y unchanged
Wrapped(P, d) ==
    <<(P[1] + to_vec3(d)[1]) % CHUNK_WIDTH, P[2] + to_vec3(d)[2],
      (P[3] + to_vec3(d)[3]) % CHUNK_DEPTH>>

\* the cell at P + d exists: in chunk i itself, or in the registered chunk
\* adjoining it horizontally
NeighbourExists(i, P, d) ==
    \/ InChunk(add_element_wise3(P, to_vec3(d)))
    \/ /\ d \in {"FRONT", "BACK", "LEFT", "RIGHT"}
       /\ AdjoiningLocation(i, d) \in DOMAIN chunk_map

\* the block of the cell at P + d, when it exists
NeighbourBlock(i, P, d) ==
    IF InChunk(add_element_wise3(P, to_vec3(d)))
    THEN BlockOf(chunks[i + 1], add_element_wise3(P, to_vec3(d)))
    ELSE BlockOf(chunks[chunk_map[AdjoiningLocation(i, d)] + 1], Wrapped(P, d))

\* the last call was World::set_block on a chunk that exists, and returned
SetBlockReturned ==
    /\ last.op = "set_block"
    /\ ~last.panicked
    /\ VecHas(chunks, last.chunk_index)

\* the cells whose slots a mesh holds
CellsOfMesh(mesh) ==
    { s \div 24 : s \in DOMAIN mesh.vertex_buffer } \cup
    { s \div 36 : s \in DOMAIN mesh.index_buffer }

\* ------------------------------------------------------------------------
\* Properties
\* ------------------------------------------------------------------------
\* C1: after any sequence of new_chunk and set_block calls, in every chunk
\* the face slot (P, d) is non-zero exactly when the block at P is not Air
\* and the cell at P + d is Air or does not exist.  (A cell outside
\* Positions is Air, so all its slots are to be zero.)
C1_VisibleFacesOnly ==
    \A i \in ChunkIndices :
       /\ \A P \in Positions, d \in Directions :
             ~FaceZero(chunk_meshes[i + 1], P, d) <=>
                /\ BlockOf(chunks[i + 1], P) # "Air"
                /\ \/ ~NeighbourExists(i, P, d)
                   \/ NeighbourBlock(i, P, d) = "Air"
       /\ CellsOfMesh(chunk_meshes[i + 1]) \subseteq { flatten_3d(P) : P \in Positions }

\* C3: immediately after set_block has set a cell to Air, all 6 face slots
\* of that cell are zero.
C3_AirClearsGeometry ==
    (SetBlockReturned /\ last.block = "Air") =>
        \A d \in Directions :
           FaceZero(chunk_meshes[last.chunk_index + 1], last.position, d)

\* C2: calling set_block twice in a row with the same chunk, in-bounds
\* position and block leaves every block grid and every mesh as the first
\* call left them.
C2_Idempotent ==
    [][ (/\ last'.op = "set_block"
         /\ last'.repeated
         /\ ~last'.panicked
         /\ VecHas(chunks, last'.chunk_index))
        => (chunk_map' = chunk_map /\ chunks' = chunks /\ chunk_meshes' = chunk_meshes)
      ]_vars

\* a second identical call has returned on a chunk whose mesh holds faces
C2_Witness ==
    /\ SetBlockReturned
    /\ last.repeated
    /\ chunk_meshes[last.chunk_index + 1].vertex_buffer # << >>

\* C4: whenever two face-adjacent cells P and P + d of one chunk both hold
\* non-Air blocks, the slot of P's d face and the slot of (P + d)'s
\* opposite face are both zero.
C4_MutualOcclusion ==
    \A i \in ChunkIndices : \A P \in Positions : \A d \in Directions :
       LET Q == add_element_wise3(P, to_vec3(d))
       IN  (/\ InChunk(Q)
            /\ BlockOf(chunks[i + 1], P) # "Air"
            /\ BlockOf(chunks[i + 1], Q) # "Air")
           => /\ FaceZero(chunk_meshes[i + 1], P, d)
              /\ FaceZero(chunk_meshes[i + 1], Q, get_opposite(d))

\* set_block has just made the second of two adjacent cells non-Air
C4_Witness ==
    /\ SetBlockReturned
    /\ last.block # "Air"
    /\ \E d \in Directions :
          LET Q == add_element_wise3(last.position, to_vec3(d))
          IN  /\ InChunk(Q)
              /\ BlockOf(chunks[last.chunk_index + 1], Q) # "Air"
              /\ FaceZero(chunk_meshes[last.chunk_index + 1], Q, get_opposite(d))

\* C5: after set_block has placed a non-Air block at a cell, every face of
\* the cell whose neighbour lies outside every registered chunk (beyond a
\* horizontal edge with no chunk registered there, or above the top /
\* below the bottom layer) has a non-zero slot.
C5_EdgeExposure ==
    (SetBlockReturned /\ last.block # "Air") =>
        \A d \in Directions :
           ~NeighbourExists(last.chunk_index, last.position, d)
              => ~FaceZero(chunk_meshes[last.chunk_index + 1], last.position, d)

\* a non-Air block was placed on a horizontal edge beyond which no chunk is
\* registered, in a world of two chunks
C5_Witness ==
    /\ SetBlockReturned
    /\ last.block # "Air"
    /\ Len(chunks) = 2
    /\ \E d \in {"LEFT", "RIGHT"} :
          /\ ~NeighbourExists(last.chunk_index, last.position, d)
          /\ ~FaceZero(chunk_meshes[last.chunk_index + 1], last.position, d)

\* C6: after set_block has placed a solid block at a boundary cell of a
\* registered chunk whose counterpart cell in the horizontally adjoining
\* registered chunk is solid, the set cell's face toward the boundary and
\* the counterpart's opposite face are both zero.
C6_CrossChunkOcclusion ==
    (SetBlockReturned /\ last.block # "Air") =>
        \A d \in {"FRONT", "BACK", "LEFT", "RIGHT"} :
           LET i == last.chunk_index
               P == last.position
               loc == AdjoiningLocation(i, d)
           IN  (/\ ~InChunk(add_element_wise3(P, to_vec3(d)))
                /\ chunk_map[chunks[i + 1].world_offset] = i
                /\ loc \in DOMAIN chunk_map
                /\ BlockOf(chunks[chunk_map[loc] + 1], Wrapped(P, d)) # "Air")
               => /\ FaceZero(chunk_meshes[i + 1], P, d)
                  /\ FaceZero(chunk_meshes[chunk_map[loc] + 1], Wrapped(P, d),
                              get_opposite(d))

\* C9: a set_block call whose chunk index addresses no chunk returns
\* without panicking and leaves the chunk map, every block grid and every
\* mesh unchanged.
C9_UnknownChunkNoOp ==
    [][ (last'.op = "set_block" /\ ~VecHas(chunks, last'.chunk_index))
        => /\ ~last'.panicked
           /\ chunk_map' = chunk_map
           /\ chunks' = chunks
           /\ chunk_meshes' = chunk_meshes
      ]_vars

\* set_block was called with an index past the end of a World that holds
\* a chunk with a non-Air block
C9_Witness ==
    /\ last.op = "set_block"
    /\ ~VecHas(chunks, last.chunk_index)
    /\ ~last.panicked
    /\ \E i \in ChunkIndices : \E P \in Positions : BlockOf(chunks[i + 1], P) # "Air"

\* the faces of cell P whose slot is not zero
NonZeroFaces(mesh, P) == { d \in Directions : ~FaceZero(mesh, P, d) }

\* chunk i is as new_chunk made it: every cell Air, both buffers zero
Fresh(i) ==
    /\ \A P \in DOMAIN chunks[i + 1].blocks : chunks[i + 1].blocks[P] = "Air"
    /\ chunk_meshes[i + 1].vertex_buffer = << >>
    /\ chunk_meshes[i + 1].index_buffer = << >>

\* all six neighbours of P are cells of the same chunk
Interior(P) == \A d \in Directions : InChunk(add_element_wise3(P, to_vec3(d)))

\* set_block has just made the interior cell P of the fresh chunk i solid:
\* P is the only non-Air cell and the mesh holds P's six faces and no other
SeamFirst(i, P) ==
    /\ SetBlockReturned
    /\ last.chunk_index = i /\ last.position = P /\ last.block # "Air"
    /\ Interior(P)
    /\ \A Q \in DOMAIN chunks[i + 1].blocks :
          chunks[i + 1].blocks[Q] # "Air" <=> Q = P
    /\ CellsOfMesh(chunk_meshes[i + 1]) = { flatten_3d(P) }
    /\ NonZeroFaces(chunk_meshes[i + 1], P) = Directions

\* C8 as stated: in a fresh chunk, setting an interior cell to a solid
\* block leaves its 6 face slots non-zero; then setting a face-adjacent
\* cell to a solid block leaves each of the two cells with exactly the 5
\* face slots other than the touching pair non-zero.
C8_SeamAsStated ==
    [][ \A i \in ChunkIndices :
          /\ (/\ Fresh(i)
               /\ last'.op = "set_block" /\ last'.chunk_index = i
               /\ last'.block # "Air" /\ Interior(last'.position))
              => NonZeroFaces(chunk_meshes'[i + 1], last'.position) = Directions
          /\ \A P \in Positions : \A d \in Directions :
                (/\ SeamFirst(i, P)
                 /\ last'.op = "set_block" /\ last'.chunk_index = i
                 /\ last'.block # "Air"
                 /\ last'.position = add_element_wise3(P, to_vec3(d)))
                => /\ NonZeroFaces(chunk_meshes'[i + 1], P) = Directions \ {d}
                   /\ NonZeroFaces(chunk_meshes'[i + 1], last'.position)
                         = Directions \ {get_opposite(d)}
      ]_vars

\* C8: in a fresh chunk, setting an interior cell P to a solid block leaves
\* its 6 face slots non-zero; then setting a face-adjacent cell Q = P + d to
\* a solid block, when each of Q's other five neighbours is Air or lies
\* outside every registered chunk, leaves each of the two cells with exactly
\* the 5 face slots other than the touching pair non-zero.
C8_Seam ==
    [][ \A i \in ChunkIndices :
          /\ (/\ Fresh(i)
               /\ last'.op = "set_block" /\ last'.chunk_index = i
               /\ last'.block # "Air" /\ Interior(last'.position))
              => NonZeroFaces(chunk_meshes'[i + 1], last'.position) = Directions
          /\ \A P \in Positions : \A d \in Directions :
                (/\ SeamFirst(i, P)
                 /\ last'.op = "set_block" /\ last'.chunk_index = i
                 /\ last'.block # "Air"
                 /\ last'.position = add_element_wise3(P, to_vec3(d))
                 /\ \A e \in Directions \ {get_opposite(d)} :
                       \/ ~NeighbourExists(i, last'.position, e)
                       \/ NeighbourBlock(i, last'.position, e) = "Air")
                => /\ NonZeroFaces(chunk_meshes'[i + 1], P) = Directions \ {d}
                   /\ NonZeroFaces(chunk_meshes'[i + 1], last'.position)
                         = Directions \ {get_opposite(d)}
      ]_vars

\* the seam is complete: the second of two adjacent solid cells was set next
\* to an interior one, they are the only cells of the mesh, and each shows
\* the 5 faces other than the touching pair
C8_Witness ==
    /\ SetBlockReturned
    /\ last.block # "Air"
    /\ \E P \in Positions : \E d \in Directions :
          /\ Interior(P)
          /\ last.position = add_element_wise3(P, to_vec3(d))
          /\ \A Q \in DOMAIN chunks[last.chunk_index + 1].blocks :
                chunks[last.chunk_index + 1].blocks[Q] # "Air" <=> Q \in {P, last.position}
          /\ CellsOfMesh(chunk_meshes[last.chunk_index + 1])
                = { flatten_3d(P), flatten_3d(last.position) }
          /\ NonZeroFaces(chunk_meshes[last.chunk_index + 1], P) = Directions \ {d}
          /\ NonZeroFaces(chunk_meshes[last.chunk_index + 1], last.position)
                = Directions \ {get_opposite(d)}

\* the local position flattened to cell index n
Unflatten(n) ==
    <<n % CHUNK_WIDTH, ((n \div CHUNK_WIDTH) % CHUNK_HEIGHT) - (CHUNK_HEIGHT \div 2),
      n \div (CHUNK_WIDTH * CHUNK_HEIGHT)>>

\* C7: flatten_3d maps the valid local positions one-to-one onto
\* [0, CHUNK_SIZE): the index of a valid position is in range and leads
\* back to that position alone, and the indices next to it (and the first
\* and the last index) are the images of valid positions.  The 4 vertex
\* slots and 6 index slots that get_buf_offset gives for (position, face)
\* lie inside the buffers (24 / 36 slots per cell) and every one of them
\* belongs to that cell and that face alone, so the ranges of two
\* different (position, face) pairs do not overlap.
C7_SlotAddressing ==
    last.op = "get_buf_offset" =>
       LET P == last.position
           f == last.flattened
           v_off == last.ret[1]
           i_off == last.ret[2]
           v_slots == (v_off \div SizeOfChunkVertex) .. (v_off \div SizeOfChunkVertex + 3)
           i_slots == (i_off \div SizeOfU32) .. (i_off \div SizeOfU32 + 5)
       IN  /\ 0 <= f /\ f < CHUNK_SIZE
           /\ Unflatten(f) = P
           /\ \A n \in {0, f - 1, f + 1, CHUNK_SIZE - 1} \cap (0 .. (CHUNK_SIZE - 1)) :
                 InChunk(Unflatten(n)) /\ flatten_3d(Unflatten(n)) = n
           /\ v_off % SizeOfChunkVertex = 0
           /\ i_off % SizeOfU32 = 0
           /\ 0 <= v_off /\ v_off + 4 * SizeOfChunkVertex <= VertexBufferBytes
           /\ 0 <= i_off /\ i_off + 6 * SizeOfU32 <= IndexBufferBytes
           /\ \A s \in v_slots :
                 /\ s < 24 * CHUNK_SIZE
                 /\ s \div 24 = f
                 /\ (s % 24) \div 4 = index(last.face)
           /\ \A s \in i_slots :
                 /\ s < 36 * CHUNK_SIZE
                 /\ s \div 36 = f
                 /\ (s % 36) \div 6 = index(last.face)

\* get_buf_offset has returned the slots of the RIGHT face of the last
\* cell of the chunk
C7_Witness ==
    /\ last.op = "get_buf_offset"
    /\ last.position = <<15, 127, 15>>
    /\ last.face = "RIGHT"
    /\ last.flattened = CHUNK_SIZE - 1
    /\ last.ret[1] \div SizeOfChunkVertex = 24 * CHUNK_SIZE - 4

\* C10: get_block returns the block of the cell exactly when the position
\* is inside the dimensions after the y-bias, and returns absent, without
\* panicking, for every other position.
C10_GetBlockBoundsChecked ==
    last.op = "get_block" =>
       IF InChunk(last.position)
       THEN last.ret = Some(BlockOf(chunks[1], last.position))
       ELSE last.ret = None

\* C11: a set_block call on a chunk that exists never panics; for a position
\* inside the dimensions the cell holds the given block afterwards and every
\* other cell of every chunk is unchanged; for a position outside the
\* dimensions no cell is changed.
C11_SetBlockBoundsChecked ==
    [][ (last'.op = "set_block" /\ VecHas(chunks, last'.chunk_index))
        => /\ ~last'.panicked
           /\ Len(chunks') = Len(chunks)
           /\ \A i \in ChunkIndices : \A P \in Positions \cup OutsidePositions :
                 BlockOf(chunks'[i + 1], P) =
                    IF i = last'.chunk_index /\ P = last'.position /\ InChunk(P)
                    THEN last'.block
                    ELSE BlockOf(chunks[i + 1], P)
      ]_vars

\* the slots of face e of cell Q hold exactly what add_face(Q, e, block)
\* writes there
FaceHolds(mesh, Q, e, block) ==
    LET written == add_face(NewChunkMesh(0), Q, e, block)
    IN  /\ \A s \in VertexSlots(Q, e) :
              SlotAt(mesh.vertex_buffer, s, ZeroVertex)
                 = SlotAt(written.vertex_buffer, s, ZeroVertex)
        /\ \A s \in IndexSlots(Q, e) :
              SlotAt(mesh.index_buffer, s, 0) = SlotAt(written.index_buffer, s, 0)

\* C12: after set_block has set cell P to Air, for every direction d whose
\* neighbour P + d lies in the same chunk and holds a non-Air block N, the
\* slot of the neighbour's face opposite to d is non-zero and holds N's
\* geometry at the neighbour's cell.
C12_RemovalExposesNeighbour ==
    (SetBlockReturned /\ last.block = "Air") =>
        \A d \in Directions :
           LET i == last.chunk_index
               Q == add_element_wise3(last.position, to_vec3(d))
           IN  (InChunk(Q) /\ BlockOf(chunks[i + 1], Q) # "Air")
               => /\ ~FaceZero(chunk_meshes[i + 1], Q, get_opposite(d))
                  /\ FaceHolds(chunk_meshes[i + 1], Q, get_opposite(d),
                               BlockOf(chunks[i + 1], Q))

\* C13: after set_block has set a boundary cell P to Air, for every
\* horizontal direction d in which P + d lies in the adjoining registered
\* chunk and the counterpart cell there holds a non-Air block, the slot of
\* the counterpart's face opposite to d is non-zero in that chunk's mesh.
C13_BoundaryRemovalExposesNeighbour ==
    (SetBlockReturned /\ last.block = "Air") =>
        \A d \in {"FRONT", "BACK", "LEFT", "RIGHT"} :
           LET i == last.chunk_index
               P == last.position
               loc == AdjoiningLocation(i, d)
           IN  (/\ ~InChunk(add_element_wise3(P, to_vec3(d)))
                /\ loc \in DOMAIN chunk_map
                /\ BlockOf(chunks[chunk_map[loc] + 1], Wrapped(P, d)) # "Air")
               => ~FaceZero(chunk_meshes[chunk_map[loc] + 1], Wrapped(P, d),
                            get_opposite(d))

\* the chunk and mesh collections have equal length, and every coordinate of
\* the chunk map maps to the index of an existing (chunk, mesh) pair whose
\* chunk has that grid coordinate
MapConsistent ==
    /\ Len(chunks) = Len(chunk_meshes)
    /\ \A c \in DOMAIN chunk_map :
          /\ VecHas(chunks, chunk_map[c])
          /\ VecHas(chunk_meshes, chunk_map[c])
          /\ VecGet(chunks, chunk_map[c]).world_offset = c

\* C14: after every new_chunk and set_block call the map is consistent with
\* the collections; the index new_chunk returns addresses the chunk it
\* made; and every index that addressed a chunk before a call addresses
\* the same chunk (same grid coordinate, same mesh slot) after it.
C14_MapConsistency ==
    [][ /\ MapConsistent'
        /\ last'.op = "new_chunk" =>
              /\ VecHas(chunks', last'.ret)
              /\ VecGet(chunks', last'.ret).world_offset = last'.chunk_location
              /\ chunk_map'[last'.chunk_location] = last'.ret
        /\ \A i \in ChunkIndices :
              /\ VecHas(chunks', i)
              /\ VecGet(chunks', i).world_offset = VecGet(chunks, i).world_offset
              /\ VecGet(chunk_meshes', i).uniform_offset
                    = VecGet(chunk_meshes, i).uniform_offset
      ]_vars

\* three chunks were made, two of them at the same grid coordinate, and a
\* set_block call has returned since
C14_Witness ==
    /\ SetBlockReturned
    /\ Len(chunks) = 3
    /\ Cardinality(DOMAIN chunk_map) = 2
    /\ MapConsistent

\* C15: the lower-case constructor of a variant returns a value of that
\* variant, and as_<variant>() on a value returns Some, of the struct that
\* carries that variant's trait implementation, exactly when the value
\* holds that variant, and None for every other variant.
C15_ConstructorAndAs ==
    last.op = "as_lower" =>
       /\ last.value.variant = last.made
       /\ last.ret.some <=> last.asked = last.made
       /\ ~last.ret.panic
       /\ last.ret.some =>
             /\ last.ret.val = last.asked
             /\ make_sound(last.ret.val) = (IF last.asked = "Dog" THEN "woof" ELSE "meow")

\* Animals::dog().as_dog() has returned Some, and the Dog it gives woofs
C15_Witness ==
    /\ last.op = "as_lower"
    /\ last.made = "Dog" /\ last.asked = "Dog"
    /\ last.ret.some
    /\ make_sound(last.ret.val) = "woof"

\* C16: a trait method called through deref on a value of a generated enum
\* returns the result of the implementation of the variant the value holds.
C16_DerefDispatch ==
    last.op = "deref" =>
       /\ last.value.variant = last.made
       /\ last.made \in Animals => last.ret = make_sound(last.made)
       /\ last.made \notin Animals => last.ret = texture_coordinates(last.made)

\* a method was called through deref on a value of a variant other than the
\* first: Animals::cat() has meowed
C16_Witness ==
    /\ last.op = "deref"
    /\ last.made = "Cat"
    /\ last.ret = "meow"

\* the two buffers of a mesh agree outside the slots of face d of cell P
SameOutside(before, after, P, d) ==
    /\ \A s \in ((DOMAIN before.vertex_buffer) \cup (DOMAIN after.vertex_buffer))
                 \ VertexSlots(P, d) :
          SlotAt(after.vertex_buffer, s, ZeroVertex) = SlotAt(before.vertex_buffer, s, ZeroVertex)
    /\ \A s \in ((DOMAIN before.index_buffer) \cup (DOMAIN after.index_buffer))
                 \ IndexSlots(P, d) :
          SlotAt(after.index_buffer, s, 0) = SlotAt(before.index_buffer, s, 0)

\* C17: add_face(P, d, block) leaves every vertex and index slot outside
\* [cell * 24 + d * 4, +4) and [cell * 36 + d * 6, +6) unchanged; the 4
\* vertex slots hold the face's corners at P with the block's texture
\* coordinates of that face, and each of the 6 index slots holds the number
\* of one of those 4 vertex slots.
C17_AddFaceFrame ==
    [][ last'.op = "add_face" =>
          LET P == last'.position
              d == last'.face
              before == chunk_meshes[1]
              after == chunk_meshes'[1]
          IN  /\ SameOutside(before, after, P, d)
              /\ \A k \in 1..4 :
                    LET vertex == SlotAt(after.vertex_buffer,
                                         flatten_3d(P) * 24 + index(d) * 4 + k - 1, ZeroVertex)
                    IN  /\ <<vertex[1], vertex[2], vertex[3]>>
                              = add_element_wise3(cube_verts(d)[k], <<2 * P[1], 2 * P[2], 2 * P[3]>>)
                        /\ <<vertex[4], vertex[5]>>
                              = to_vec(texture_coordinates(last'.block))[index(d) * 4 + k]
              /\ \A s \in IndexSlots(P, d) :
                    SlotAt(after.index_buffer, s, 0) \in VertexSlots(P, d)
              /\ after.num_elements = before.num_elements
              /\ after.uniform_offset = before.uniform_offset
      ]_vars

\* add_face has written a face of the last cell of the chunk into a mesh
\* that holds the faces of another cell
C17_Witness ==
    /\ last.op = "add_face"
    /\ last.position = <<15, 127, 15>>
    /\ ~FaceZero(chunk_meshes[1], last.position, last.face)
    /\ ~FaceZero(chunk_meshes[1], <<14, 0, 5>>, "TOP")

\* C18: remove_face(P, d) leaves the 4 vertex slots and 6 index slots of
\* (P, d), the slots add_face(P, d, _) writes, all zero and every other slot
\* unchanged; so after add_face then remove_face on the same (P, d) the
\* slots of (P, d) are zero.
C18_RemoveFaceFrame ==
    [][ last'.op = "remove_face" =>
          /\ SameOutside(chunk_meshes[1], chunk_meshes'[1], last'.position, last'.face)
          /\ FaceZero(chunk_meshes'[1], last'.position, last'.face)
          /\ \A block \in MeshBlocks :
                SameOutside(chunk_meshes[1],
                            add_face(chunk_meshes[1], last'.position, last'.face, block),
                            last'.position, last'.face)
      ]_vars

\* remove_face was called right after add_face on the same cell and face,
\* in a mesh that still holds the faces of another cell
C18_Witness ==
    /\ last.op = "remove_face"
    /\ last.after_add
    /\ FaceZero(chunk_meshes[1], last.position, last.face)
    /\ last.position # <<14, 0, 5>>
    /\ ~FaceZero(chunk_meshes[1], <<14, 0, 5>>, "TOP")

AdjoiningChunks(i, P) ==
    { chunk_map[AdjoiningLocation(i, d)] :
        d \in { e \in {"FRONT", "BACK", "LEFT", "RIGHT"} :
                  /\ ~InChunk(add_element_wise3(P, to_vec3(e)))
                  /\ AdjoiningLocation(i, e) \in DOMAIN chunk_map } }

\* C20 as stated: a set_block call changes the mesh of the chunk that owns
\* the cell and the mesh of at most one other chunk, and no other mesh.
C20_AtMostTwoMeshesAsStated ==
    [][ (last'.op = "set_block" /\ VecHas(chunks, last'.chunk_index)) =>
          Cardinality({ i \in ChunkIndices :
                          /\ i # last'.chunk_index
                          /\ chunk_meshes'[i + 1] # chunk_meshes[i + 1] }) <= 1
      ]_vars

\* C20: a set_block call changes, besides the mesh of the chunk that owns
\* the cell, only meshes of chunks adjoining that chunk across a horizontal
\* face of the cell: at most one across its x edge and one across its z
\* edge, so at most two neighbouring meshes (three meshes in all), and at
\* most one when the cell is not on a vertical corner edge of the chunk.
C20_AtMostThreeMeshes ==
    [][ (last'.op = "set_block" /\ VecHas(chunks, last'.chunk_index)) =>
          LET owner == last'.chunk_index
              P == last'.position
              edited == { i \in ChunkIndices :
                            /\ i # owner
                            /\ chunk_meshes'[i + 1] # chunk_meshes[i + 1] }
              on_x_edge == P[1] \in {0, CHUNK_WIDTH - 1}
              on_z_edge == P[3] \in {0, CHUNK_DEPTH - 1}
          IN  /\ edited \subseteq AdjoiningChunks(owner, P)
              /\ Cardinality(edited) <= 2
              /\ ~(on_x_edge /\ on_z_edge) => Cardinality(edited) <= 1
              /\ ~(on_x_edge \/ on_z_edge) => edited = {}
      ]_vars

\* set_block on the corner cell of chunk 0 has just changed three meshes:
\* it added faces to the mesh of chunk 0 and removed the hidden faces of the
\* solid counterparts from the meshes of chunks 1 and 2
C20_Witness ==
    /\ SetBlockReturned
    /\ last.chunk_index = 0 /\ last.position = <<15, 0, 15>> /\ last.block # "Air"
    /\ Len(chunks) = 3
    /\ BlockOf(chunks[2], <<0, 0, 15>>) # "Air"
    /\ BlockOf(chunks[3], <<15, 0, 0>>) # "Air"
    /\ ~FaceZero(chunk_meshes[1], <<15, 0, 15>>, "TOP")
    /\ FaceZero(chunk_meshes[2], <<0, 0, 15>>, "LEFT")
    /\ FaceZero(chunk_meshes[3], <<15, 0, 0>>, "BACK")
    /\ ~FaceZero(chunk_meshes[2], <<0, 0, 15>>, "TOP")
    /\ ~FaceZero(chunk_meshes[3], <<15, 0, 0>>, "TOP")

\* C21: the valid local y values are exactly -127 .. 128: for x and z in
\* range get_block returns a block exactly when y is in -127 .. 128, and
\* flatten_3d gives a cell index in [0, CHUNK_SIZE) exactly for those y.
C21_YRange ==
    /\ (/\ last.op = "get_block"
         /\ last.position[1] \in 0 .. (CHUNK_WIDTH - 1)
         /\ last.position[3] \in 0 .. (CHUNK_DEPTH - 1))
        => (last.ret.some <=> last.position[2] \in -127 .. 128)
    /\ last.op = "get_buf_offset"
        => ((0 <= last.flattened /\ last.flattened < CHUNK_SIZE)
               <=> last.position[2] \in -127 .. 128)

\* the vertex slots and the index slots of all six faces of cell P
CellVertexSlots(P) == (flatten_3d(P) * 24) .. (flatten_3d(P) * 24 + 23)
CellIndexSlots(P) == (flatten_3d(P) * 36) .. (flatten_3d(P) * 36 + 35)

\* the directions d in which the cell facing P across d belongs to the mesh
\* of chunk j, seen from cell P of chunk i
FacingIn(i, P, j) ==
    { d \in Directions :
        \/ j = i /\ InChunk(add_element_wise3(P, to_vec3(d)))
        \/ /\ ~InChunk(add_element_wise3(P, to_vec3(d)))
           /\ d \in {"FRONT", "BACK", "LEFT", "RIGHT"}
           /\ AdjoiningLocation(i, d) \in DOMAIN chunk_map
           /\ chunk_map[AdjoiningLocation(i, d)] = j }

\* the cell of the mesh of chunk j that faces P of chunk i across d
FacingCell(i, P, d) ==
    IF InChunk(add_element_wise3(P, to_vec3(d)))
    THEN add_element_wise3(P, to_vec3(d))
    ELSE Wrapped(P, d)

\* C22: a set_block(chunk, P, B) call that returns changes no block cell
\* other than P of the target chunk, and in every mesh changes no vertex or
\* index slot other than the slots of P (target chunk) and the slot facing
\* P of each of P's six neighbours; the chunk map, the number of chunks and
\* every uniform offset are unchanged.
C22_SetBlockFrame ==
    [][ (/\ last'.op = "set_block" /\ ~last'.panicked
         /\ VecHas(chunks, last'.chunk_index)) =>
          LET owner == last'.chunk_index
              P == last'.position
          IN  /\ chunk_map' = chunk_map
              /\ Len(chunks') = Len(chunks)
              /\ Len(chunk_meshes') = Len(chunk_meshes)
              /\ \A j \in ChunkIndices :
                    LET before == chunk_meshes[j + 1]
                        after == chunk_meshes'[j + 1]
                        v_allowed ==
                            (IF j = owner THEN CellVertexSlots(P) ELSE {}) \cup
                            UNION { VertexSlots(FacingCell(owner, P, d), get_opposite(d)) :
                                      d \in FacingIn(owner, P, j) }
                        i_allowed ==
                            (IF j = owner THEN CellIndexSlots(P) ELSE {}) \cup
                            UNION { IndexSlots(FacingCell(owner, P, d), get_opposite(d)) :
                                      d \in FacingIn(owner, P, j) }
                    IN  /\ chunks'[j + 1].world_offset = chunks[j + 1].world_offset
                        /\ \A Q \in (DOMAIN chunks[j + 1].blocks)
                                      \cup (DOMAIN chunks'[j + 1].blocks) :
                              (j # owner \/ Q # P) =>
                                 BlockOf(chunks'[j + 1], Q) = BlockOf(chunks[j + 1], Q)
                        /\ after.uniform_offset = before.uniform_offset
                        /\ after.num_elements = before.num_elements
                        /\ \A s \in ((DOMAIN before.vertex_buffer)
                                       \cup (DOMAIN after.vertex_buffer)) \ v_allowed :
                              SlotAt(after.vertex_buffer, s, ZeroVertex)
                                 = SlotAt(before.vertex_buffer, s, ZeroVertex)
                        /\ \A s \in ((DOMAIN before.index_buffer)
                                       \cup (DOMAIN after.index_buffer)) \ i_allowed :
                              SlotAt(after.index_buffer, s, 0) = SlotAt(before.index_buffer, s, 0)
      ]_vars

\* set_block has placed a solid block on the boundary next to a solid
\* counterpart: it wrote faces of its own cell and zeroed the facing slot in
\* the mesh of the adjoining chunk, which still holds the counterpart's
\* other faces
C22_Witness ==
    /\ SetBlockReturned
    /\ last.block # "Air"
    /\ Len(chunks) = 2
    /\ \E d \in {"LEFT", "RIGHT"} :
          LET i == last.chunk_index
              P == last.position
              loc == AdjoiningLocation(i, d)
          IN  /\ ~InChunk(add_element_wise3(P, to_vec3(d)))
              /\ loc \in DOMAIN chunk_map
              /\ chunk_map[loc] # i
              /\ BlockOf(chunks[chunk_map[loc] + 1], Wrapped(P, d)) # "Air"
              /\ FaceZero(chunk_meshes[chunk_map[loc] + 1], Wrapped(P, d), get_opposite(d))
              /\ ~FaceZero(chunk_meshes[chunk_map[loc] + 1], Wrapped(P, d), "TOP")
              /\ ~FaceZero(chunk_meshes[i + 1], P, "TOP")

\* ------------------------------------------------------------------------
\* Chunk::set_block of chunk.rs: the chunk edits its own mesh through
\* ChunkMesh::set_block and then stores the block
\* ------------------------------------------------------------------------
\* one turn of the loops of ChunkMesh::set_block over the six faces
mesh_set_block_face(mesh, chunk, chunk_position, face, block, overflow_checks) ==
    LET v == add_element_wise3(to_vec3(face), chunk_position)
        neighbor == get_block(chunk, v, overflow_checks)
    IN  IF block = "Air"
        THEN IF neighbor.some /\ neighbor.val # "Air"
             THEN add_face(mesh, v, get_opposite(face), neighbor.val)
             ELSE mesh
        ELSE IF neighbor.some
             THEN IF neighbor.val = "Air"
                  THEN add_face(mesh, chunk_position, face, block)
                  ELSE remove_face(remove_face(mesh, chunk_position, face),
                                   v, get_opposite(face))
             ELSE add_face(mesh, chunk_position, face, block)

RECURSIVE mesh_set_block_faces(_, _, _, _, _, _)
mesh_set_block_faces(mesh, chunk, chunk_position, k, block, overflow_checks) ==
    IF k > Len(faces) THEN mesh
    ELSE mesh_set_block_faces(
             mesh_set_block_face(mesh, chunk, chunk_position, faces[k], block,
                                 overflow_checks),
             chunk, chunk_position, k + 1, block, overflow_checks)

\* ChunkMesh::set_block.  For Air the two writes of zeroes come first: the
\* vertex data is [0u32; size_of::<ChunkVertex>() * 24] cast to bytes, the
\* index data [0u32; 36].
mesh_set_block(mesh, chunk, chunk_position, block, overflow_checks) ==
    LET flattened == flatten_3d(chunk_position)
        vertex_bytes == SizeOfU32 * (SizeOfChunkVertex * 24)
        index_bytes == SizeOfU32 * 36
        zeroed ==
            [mesh EXCEPT
               !.vertex_buffer =
                   write_buffer(@, (flattened * SizeOfChunkVertex * 24) \div SizeOfChunkVertex,
                                [k \in 1 .. (vertex_bytes \div SizeOfChunkVertex) |-> ZeroVertex],
                                ZeroVertex),
               !.index_buffer =
                   write_buffer(@, (flattened * SizeOfU32 * 36) \div SizeOfU32,
                                [k \in 1 .. (index_bytes \div SizeOfU32) |-> 0], 0)]
    IN  mesh_set_block_faces(IF block = "Air" THEN zeroed ELSE mesh,
                             chunk, chunk_position, 1, block, overflow_checks)

\* Chunk::set_block(position, block, queue): the mesh first, read against
\* the blocks as they were, then the write into the array
chunk_set_block_queue(chunk, mesh, position, block, overflow_checks) ==
    LET probes == { get_block(chunk, add_element_wise3(to_vec3(f), position),
                              overflow_checks) : f \in Directions }
        stored == chunk_set_block(chunk, position, block)
    IN  IF (\E n \in probes : n.panic) \/ stored.panic
        THEN [panic |-> TRUE, chunk |-> chunk, mesh |-> mesh]
        ELSE [panic |-> FALSE, chunk |-> stored.chunk,
              mesh |-> mesh_set_block(mesh, chunk, position, block, overflow_checks)]

\* the cells Chunk::set_block is called on: the last three cells of a row
\* along x and the cell whose flattened index follows the row
ChunkSetPositions == { <<13, 0, 5>>, <<14, 0, 5>>, <<15, 0, 5>>, <<0, 1, 5>> }

\* World::new and new_chunk((0, 0), 0)
InitChunk ==
    /\ chunk_map = (<<0, 0>> :> 0)
    /\ chunks = <<NewChunk(<<0, 0>>)>>
    /\ chunk_meshes = <<NewChunkMesh(0)>>
    /\ gpu_buffers = <<NewGpuBuffers>>
    /\ last = [op |-> "new_chunk", panicked |-> FALSE]
    /\ calls = 0
    /\ input = NewInput
    /\ timer = NewTimer(Nanos(0), FALSE)

\* a call chunk.set_block(position, block, queue) on chunk 0
ChunkSetBlock(position, block, overflow_checks) ==
    /\ calls < MaxCalls
    /\ ~last.panicked
    /\ calls' = calls + 1
    /\ UNCHANGED <<input, timer>>
    /\ \E after \in { chunk_set_block_queue(chunks[1], chunk_meshes[1], position, block,
                                            overflow_checks) } :
          /\ chunks' = [chunks EXCEPT ![1] = after.chunk]
          /\ chunk_meshes' = [chunk_meshes EXCEPT ![1] = after.mesh]
          /\ last' = [op |-> "chunk_set_block", position |-> position, block |-> block,
                      panicked |-> after.panic]
    /\ UNCHANGED <<chunk_map, gpu_buffers>>

NextChunk ==
    \E position \in ChunkSetPositions, block \in Blocks, overflow_checks \in BOOLEAN :
        ChunkSetBlock(position, block, overflow_checks)

SpecChunk == InitChunk /\ [][NextChunk]_vars

\* the slots of the face that each solid in-chunk neighbour of P turns to P
SolidFacingVertexSlots(chunk, P) ==
    UNION { VertexSlots(add_element_wise3(P, to_vec3(d)), get_opposite(d)) :
              d \in { e \in Directions :
                        /\ InChunk(add_element_wise3(P, to_vec3(e)))
                        /\ BlockOf(chunk, add_element_wise3(P, to_vec3(e))) # "Air" } }
SolidFacingIndexSlots(chunk, P) ==
    UNION { IndexSlots(add_element_wise3(P, to_vec3(d)), get_opposite(d)) :
              d \in { e \in Directions :
                        /\ InChunk(add_element_wise3(P, to_vec3(e)))
                        /\ BlockOf(chunk, add_element_wise3(P, to_vec3(e))) # "Air" } }

\* C23: Chunk::set_block(P, Air) leaves the 24 vertex slots and the 36
\* index slots of P zero, and changes no slot of any other cell except the
\* slots of the face that a solid neighbour turns to P.
C23_AirZeroesOwnCellOnly ==
    [][ (/\ last'.op = "chunk_set_block" /\ ~last'.panicked
         /\ last'.block = "Air") =>
          LET P == last'.position
              before == chunk_meshes[1]
              after == chunk_meshes'[1]
          IN  /\ \A s \in CellVertexSlots(P) :
                    SlotAt(after.vertex_buffer, s, ZeroVertex) = ZeroVertex
              /\ \A s \in CellIndexSlots(P) : SlotAt(after.index_buffer, s, 0) = 0
              /\ \A s \in ((DOMAIN before.vertex_buffer) \cup (DOMAIN after.vertex_buffer))
                             \ (CellVertexSlots(P) \cup SolidFacingVertexSlots(chunks[1], P)) :
                    SlotAt(after.vertex_buffer, s, ZeroVertex)
                       = SlotAt(before.vertex_buffer, s, ZeroVertex)
              /\ \A s \in ((DOMAIN before.index_buffer) \cup (DOMAIN after.index_buffer))
                             \ (CellIndexSlots(P) \cup SolidFacingIndexSlots(chunks[1], P)) :
                    SlotAt(after.index_buffer, s, 0) = SlotAt(before.index_buffer, s, 0)
      ]_vars

\* the World left by set_block(i, P, B1) followed by set_block(j, Q, B2)
SetBlockTwice(world, i, P, B1, j, Q, B2) ==
    set_block(set_block(world, i, P, B1).world, j, Q, B2).world

\* C24: in every reachable state, for two distinct cells P of chunk i and Q
\* of chunk j and any blocks B1 and B2, set_block(i, P, B1) followed by
\* set_block(j, Q, B2) leaves the same block grids and the same meshes as
\* the two calls in the opposite order.
C24_OrderIndependent ==
    \A i \in ChunkIndices, j \in ChunkIndices :
       \A P \in Positions, Q \in Positions :
          \A B1 \in Blocks, B2 \in Blocks :
             (<<i, P>> # <<j, Q>>) =>
                SetBlockTwice(World, i, P, B1, j, Q, B2)
                   = SetBlockTwice(World, j, Q, B2, i, P, B1)

\* C25: every chunk of the collection is found through the coordinate map:
\* looking up the grid coordinate of chunk i gives Some(i), for every index
\* i, so no two chunks of the collection have the same coordinate.
C25_EveryChunkMapped ==
    \A i \in ChunkIndices :
       get_chunk_index_by_offset(chunk_map, VecGet(chunks, i).world_offset) = Some(i)

\* ------------------------------------------------------------------------
\* Calls on one Input<MouseButton>
\* ------------------------------------------------------------------------
MouseButtons == {"Left", "Right"}
ButtonStates == {"Pressed", "Released"}
MouseButtonInputs == [button : MouseButtons, state : ButtonStates]

\* the events one run of the system reads: none, one or two
EventBatches ==
    {<< >>} \cup { <<e>> : e \in MouseButtonInputs }
            \cup { <<e, f>> : e \in MouseButtonInputs, f \in MouseButtonInputs }

\* World::new, Input::default and a timer that is not ticked
InitInput ==
    /\ chunk_map = << >>
    /\ chunks = << >>
    /\ chunk_meshes = << >>
    /\ gpu_buffers = << >>
    /\ last = [op |-> "new", panicked |-> FALSE]
    /\ calls = 0
    /\ input = NewInput
    /\ timer = NewTimer(Nanos(0), FALSE)

\* input.press(x)
Press(x) ==
    /\ input' = press(input, x)
    /\ last' = [op |-> "press", button |-> x, held |-> x \in input.pressed,
                after_clear |-> last.op = "clear", panicked |-> FALSE]
    /\ UNCHANGED <<chunk_map, chunks, chunk_meshes, gpu_buffers, calls, timer>>

\* input.release(x)
Release(x) ==
    /\ input' = release(input, x)
    /\ last' = [op |-> "release", button |-> x, held |-> x \in input.pressed,
                after_clear |-> last.op = "clear", panicked |-> FALSE]
    /\ UNCHANGED <<chunk_map, chunks, chunk_meshes, gpu_buffers, calls, timer>>

\* input.clear()
Clear ==
    /\ input' = clear(input)
    /\ last' = [op |-> "clear", panicked |-> FALSE]
    /\ UNCHANGED <<chunk_map, chunks, chunk_meshes, gpu_buffers, calls, timer>>

\* one run of mouse_button_input_system over the events of a frame
MouseButtonInputSystem(events) ==
    /\ input' = mouse_button_input_system(input, events)
    /\ last' = [op |-> "mouse_button_input_system", events |-> events,
                panicked |-> FALSE]
    /\ UNCHANGED <<chunk_map, chunks, chunk_meshes, gpu_buffers, calls, timer>>

NextInput ==
    \/ \E x \in MouseButtons : Press(x)
    \/ \E x \in MouseButtons : Release(x)
    \/ Clear
    \/ \E events \in EventBatches : MouseButtonInputSystem(events)

SpecInput == InitInput /\ [][NextInput]_vars

\* C26: press(x) puts x into just_pressed only when x was not pressed (and
\* then always); release(x) puts x into just_released only when x was
\* pressed (and then always); clear() empties just_pressed and just_released
\* and leaves pressed as it was; so a press of a held input right after
\* clear(), and a Pressed event for a held button in a run of
\* mouse_button_input_system, do not report just_pressed.
C26_EdgeDetection ==
    [][ /\ last'.op = "press" =>
              /\ input'.pressed = input.pressed \cup {last'.button}
              /\ input'.just_pressed =
                    IF last'.button \in input.pressed
                    THEN input.just_pressed
                    ELSE input.just_pressed \cup {last'.button}
              /\ input'.just_released = input.just_released
              /\ (last.op = "clear" /\ last'.button \in input.pressed)
                    => last'.button \notin input'.just_pressed
        /\ last'.op = "release" =>
              /\ input'.pressed = input.pressed \ {last'.button}
              /\ input'.just_released =
                    IF last'.button \in input.pressed
                    THEN input.just_released \cup {last'.button}
                    ELSE input.just_released
              /\ input'.just_pressed = input.just_pressed
        /\ last'.op = "clear" =>
              /\ input'.just_pressed = {}
              /\ input'.just_released = {}
              /\ input'.pressed = input.pressed
        /\ last'.op = "mouse_button_input_system" =>
              \A b \in MouseButtons :
                 (/\ b \in input.pressed
                  /\ \A k \in 1 .. Len(last'.events) :
                        last'.events[k].button = b => last'.events[k].state = "Pressed")
                    => b \notin input'.just_pressed /\ b \in input'.pressed
      ]_vars

\* a held button has been pressed again right after clear() and is not
\* reported as just pressed, while the other button is not held
C26_Witness ==
    /\ last.op = "press"
    /\ last.held
    /\ last.after_clear
    /\ last.button \in input.pressed
    /\ last.button \notin input.just_pressed
    /\ input.pressed = {last.button}

\* ------------------------------------------------------------------------
\* Calls on one Timer
\* ------------------------------------------------------------------------
MaxTicks == 4

\* the durations of the timers made, in nanoseconds
TimerDurations == { Nanos(0), Nanos(1), Nanos(2), Nanos(3) }

\* the deltas handed to tick: none, a few nanoseconds, and 2^32 and
\* 2^32 + 1 nanoseconds (about 4.29 s)
Deltas == { Nanos(0), Nanos(1), Nanos(2), Nanos(5), <<0, 0, 1>>, <<1, 0, 1>> }

\* World::new, Input::default and Timer::new(duration, repeating)
InitTimer ==
    /\ chunk_map = << >>
    /\ chunks = << >>
    /\ chunk_meshes = << >>
    /\ gpu_buffers = << >>
    /\ last = [op |-> "new", panicked |-> FALSE]
    /\ calls = 0
    /\ input = NewInput
    /\ \E duration \in TimerDurations, repeating \in BOOLEAN :
          timer = NewTimer(duration, repeating)

\* timer.tick(delta)
Tick(delta) ==
    /\ calls < MaxTicks
    /\ ~last.panicked
    /\ stopwatch_tick(timer.stopwatch, delta).carry = 0
    /\ calls' = calls + 1
    /\ \E after \in { tick(timer, delta) } :
          /\ timer' = after.timer
          /\ last' = [op |-> "tick", delta |-> delta, panicked |-> after.panic]
    /\ UNCHANGED <<chunk_map, chunks, chunk_meshes, gpu_buffers, input>>

\* timer.pause()
Pause ==
    /\ ~last.panicked
    /\ timer' = [timer EXCEPT !.stopwatch.paused = TRUE]
    /\ last' = [op |-> "pause", panicked |-> FALSE]
    /\ UNCHANGED <<chunk_map, chunks, chunk_meshes, gpu_buffers, calls, input>>

\* timer.unpause()
Unpause ==
    /\ ~last.panicked
    /\ timer' = [timer EXCEPT !.stopwatch.paused = FALSE]
    /\ last' = [op |-> "unpause", panicked |-> FALSE]
    /\ UNCHANGED <<chunk_map, chunks, chunk_meshes, gpu_buffers, calls, input>>

NextTimer ==
    \/ \E delta \in Deltas : Tick(delta)
    \/ Pause
    \/ Unpause

SpecTimer == InitTimer /\ [][NextTimer]_vars

\* the elapsed time before a tick plus the delta of the tick
Accumulated == DurationAdd(timer.stopwatch.elapsed, last'.delta).val

\* C27: on every tick of an unpaused non-repeating timer the elapsed time
\* stays at most the duration; a timer that was finished stays finished with
\* elapsed = duration and does not report just_finished; a timer that was
\* not finished becomes finished, with elapsed = duration, exactly when the
\* accumulated time reaches the duration, and reports just_finished on that
\* tick and no other.
C27_NonRepeating ==
    [][ (/\ last'.op = "tick" /\ ~last'.panicked
         /\ ~timer.repeating /\ ~timer.stopwatch.paused) =>
          LET reaches == DurationLeq(timer.duration, Accumulated)
          IN  /\ DurationLeq(timer'.stopwatch.elapsed, timer'.duration)
              /\ timer.finished =>
                    /\ timer'.finished
                    /\ timer'.stopwatch.elapsed = timer'.duration
                    /\ ~just_finished(timer')
              /\ ~timer.finished =>
                    /\ timer'.finished <=> reaches
                    /\ just_finished(timer') <=> reaches
                    /\ timer'.stopwatch.elapsed =
                          IF reaches THEN timer'.duration ELSE Accumulated
      ]_vars

\* a non-repeating timer of 3 ns that a tick took past its duration has been
\* ticked again: it is finished, holds elapsed = duration and no longer
\* reports just_finished
C27_Witness ==
    /\ last.op = "tick"
    /\ ~last.panicked
    /\ ~timer.repeating
    /\ ~timer.stopwatch.paused
    /\ timer.duration = Nanos(3)
    /\ last.delta = Nanos(5)
    /\ timer.finished
    /\ timer.stopwatch.elapsed = Nanos(3)
    /\ ~just_finished(timer)
    /\ calls >= 2

\* C28: after every tick(delta) of an unpaused repeating timer with a
\* non-zero duration, times_finished_this_tick is the number of whole
\* durations in the accumulated time, the elapsed time is the remainder and
\* less than the duration, and finished() holds exactly when
\* times_finished_this_tick > 0; a tick of a paused repeating timer leaves
\* the elapsed time as it was and reports zero finishes.
C28_Repeating ==
    [][ (/\ last'.op = "tick" /\ ~last'.panicked
         /\ timer.repeating /\ timer.duration # Nanos(0)) =>
          IF timer.stopwatch.paused
          THEN /\ timer'.stopwatch.elapsed = timer.stopwatch.elapsed
               /\ timer'.times_finished_this_tick = U32(0)
          ELSE /\ DurationAdd(DurationMulU32(timer.duration, timer'.times_finished_this_tick),
                               timer'.stopwatch.elapsed).val = Accumulated
               /\ DurationLess(timer'.stopwatch.elapsed, timer.duration)
               /\ timer'.finished <=> timer'.times_finished_this_tick # U32(0)
      ]_vars

====
